---- MODULE Spec2Model ----
(***************************************************************************)
(* A model of the terminal core in src/vte.c: the incoming-byte pipeline   *)
(* (chunk list, decoding, processing pass, process/update timers) and the  *)
(* screen model (row ring, cursor, insert/scroll deltas, insertion         *)
(* engine).                                                                *)
(*                                                                         *)
(* The operators thread a "world" record w that holds the process-wide     *)
(* statics of vte.c (timer tags, active list) and the terminals;           *)
(* every operator is the translation of one C function and returns the     *)
(* world after the call.  The actions at the end of the module read the    *)
(* world from the variables and write the result back.                     *)
(***************************************************************************)
EXTENDS Integers, Sequences, FiniteSets, TLC

(***************************************************************************)
(* Bounds of the exploration.                                              *)
(***************************************************************************)
MaxUnits == 4        \* units (characters, sequences) handled in a behaviour
MaxExternal == 1     \* calls of resize / set_scrollback / reset / scroll
MaxFed == 4          \* bytes fed or read in a behaviour of the pipeline
MaxQueued == 2       \* bytes and characters that may wait when a unit is fed
ChunkData == 3       \* sizeof(chunk->data), scaled down
MaxRegionUnits == 5  \* feed calls in a behaviour with a scrolling region
MaxMatchUnits == 2   \* feed calls in a behaviour with matches and a selection
MaxMatchOps == 3     \* calls of the match and selection interface, pointer events
MaxRegexes == 2      \* slots of the match table
MaxWordUnits == 3    \* feed calls in a behaviour with word characters
MaxWordOps == 2      \* calls of vte_terminal_set_word_chars in a behaviour
MaxChildOps == 2     \* calls of the application in a behaviour with a child
MaxWritten == 3      \* bytes one write() to the pty takes
MaxResizeUnits == 3  \* feed calls in a behaviour with resizes
MaxResizeOps == 2    \* resizes, scrollback settings and resets in a behaviour
MaxViewUnits == 5    \* feed calls in a behaviour with a scrolled view
MaxViewOps == 2      \* moves of the scrollbar and settings in such a behaviour
MaxInputOps == 3     \* events of the keyboard, the pointer and the focus in a behaviour
MaxSharedUnits == 2  \* feeds to the two terminals of a behaviour
MaxSharedOps == 3    \* calls of the application on the two terminals of a behaviour
MaxParseUnits == 2   \* feeds of one or two code points in a behaviour of the parser
MaxRowsUnits == 2     \* feeds in a behaviour of SpecRows
MaxRowsOps == 2       \* calls of set_size in a behaviour of SpecRows
MaxResetUnits == 2    \* feeds in a behaviour of SpecReset
MaxResetOps == 4      \* calls of the application in a behaviour of SpecReset
MaxChunks == 14       \* chunk objects that memory holds in SpecChunks
MaxPoolOps == 4       \* calls and callbacks in a behaviour of SpecChunks

(***************************************************************************)
(* Program constants.                                                      *)
(***************************************************************************)
GMaxLong == 1000000  \* G_MAXLONG, scaled to the integers of the checker
VTE_DEF_BG == 0      \* palette index of the default background
G_MAXINT == 1000000  \* G_MAXINT, scaled like G_MAXLONG
VTE_CELL_BBOX_SLACK == 1
VTE_MAX_INPUT_READ == 4  \* bytes read between two updates, scaled down
VTE_BLINK_TIMEOUT_INIT == 500  \* cursor_blink_timeout after vte_terminal_init

(***************************************************************************)
(* Code points.  A unistr is modelled by the sequence of its code points   *)
(* (base followed by the combining marks interned with it).                *)
(***************************************************************************)
NulChar == 0
TabChar == 9
NarrowChar == 97
OtherChar == 98      \* a second narrow character
MarkChar == 769      \* U+0301, a combining mark (zero columns)
WideChar == 19968    \* U+4E00, a wide character (two columns)
SubstituteChar == 65533  \* U+FFFD

Max(a, b) == IF a >= b THEN a ELSE b
Min(a, b) == IF a <= b THEN a ELSE b
Clamp(x, lo, hi) == IF x > hi THEN hi ELSE IF x < lo THEN lo ELSE x

\* The value of a singleton set.  An intermediate result that is used more
\* than once is named by a bound variable, The({ f(x) : x \in {e} }), so
\* that e is written and evaluated once.
The(S) == CHOOSE x \in S : TRUE

\* _vte_iso2022_unichar_width
unichar_width(c) ==
    IF c = MarkChar THEN 0 ELSE IF c = WideChar THEN 2 ELSE 1

\* _vte_unistr_append_unichar: intern (unistr, mark)
unistr_append_unichar(s, c) == Append(s, c)

(***************************************************************************)
(* Cells and rows (vterowdata).  A row is its cells plus soft_wrapped.     *)
(* Columns are 0-based as in the source; sequences are 1-based.            *)
(***************************************************************************)
Cell(c, columns, fragment, back) ==
    [c |-> c, columns |-> columns, fragment |-> fragment, back |-> back]

basic_cell == Cell(<<NulChar>>, 1, FALSE, VTE_DEF_BG)

EmptyRow == [cells |-> <<>>, soft_wrapped |-> FALSE]

row_data_length(row) == Len(row.cells)

\* _vte_row_data_get: NULL (here: no cell) when col is beyond the row
HasCell(row, col) == col >= 0 /\ col < Len(row.cells)
row_data_get(row, col) == row.cells[col + 1]

\* _vte_row_data_fill: append copies of cell until the row has len cells
row_data_fill(row, cell, len) ==
    IF Len(row.cells) >= len THEN row
    ELSE [row EXCEPT !.cells = @ \o [i \in 1..(len - Len(@)) |-> cell]]

\* _vte_row_data_insert: shift the cells from col on right by one
row_data_insert(row, col, cell) ==
    [row EXCEPT !.cells = SubSeq(@, 1, col) \o <<cell>> \o SubSeq(@, col + 1, Len(@))]

\* _vte_row_data_shrink: drop the cells beyond max_len
row_data_shrink(row, max_len) ==
    IF Len(row.cells) > max_len
    THEN [row EXCEPT !.cells = SubSeq(@, 1, max_len)]
    ELSE row

SetCell(row, col, cell) == [row EXCEPT !.cells[col + 1] = cell]

(***************************************************************************)
(* The row ring.  rows[1] is ring index delta; next = delta + Len(rows).   *)
(***************************************************************************)
ring_init(max_rows) == [rows |-> <<>>, delta |-> 0, max |-> max_rows]

ring_delta(ring) == ring.delta
ring_next(ring) == ring.delta + Len(ring.rows)
ring_length(ring) == Len(ring.rows)
ring_contains(ring, i) == i >= ring.delta /\ i < ring_next(ring)
ring_index(ring, i) == ring.rows[i - ring.delta + 1]
ring_set(ring, i, row) == [ring EXCEPT !.rows[i - ring.delta + 1] = row]

\* discard the oldest row when the ring holds more than max rows
ring_maybe_discard_one_row(ring) ==
    IF Len(ring.rows) > ring.max
    THEN [ring EXCEPT !.rows = Tail(@), !.delta = @ + 1]
    ELSE ring

\* _vte_ring_insert at position <= next: a cleared row appears at position,
\* the rows from position on move down by one, the oldest row is evicted
\* when the ring is full
ring_insert(ring, position) ==
    LET k == position - ring.delta
        grown == [ring EXCEPT !.rows = SubSeq(@, 1, k) \o <<EmptyRow>> \o SubSeq(@, k + 1, Len(@))]
    IN ring_maybe_discard_one_row(grown)

ring_append(ring) == ring_insert(ring, ring_next(ring))

\* _vte_ring_remove: the rows after position move up by one
ring_remove(ring, position) ==
    LET k == position - ring.delta
    IN IF ring_contains(ring, position)
       THEN [ring EXCEPT !.rows = SubSeq(@, 1, k) \o SubSeq(@, k + 2, Len(@))]
       ELSE ring

\* _vte_ring_resize: new capacity; the oldest rows beyond it are dropped
ring_resize(ring, max_rows) ==
    IF Len(ring.rows) > max_rows
    THEN [rows |-> SubSeq(ring.rows, Len(ring.rows) - max_rows + 1, Len(ring.rows)),
          delta |-> ring_next(ring) - max_rows,
          max |-> max_rows]
    ELSE [ring EXCEPT !.max = max_rows]

\* _vte_ring_shrink: drop the newest rows beyond max_len
ring_shrink(ring, max_len) ==
    IF Len(ring.rows) > max_len
    THEN [ring EXCEPT !.rows = SubSeq(@, 1, max_len)]
    ELSE ring

(***************************************************************************)
(* The world: the statics of vte.c and the terminals.                      *)
(*   process_timeout_tag  0, or 1 when the process timer is scheduled      *)
(*   update_timeout_tag   0, 1 when update_timeout is scheduled, 2 when    *)
(*                        update_repeat_timeout is scheduled               *)
(*   active_terminals     the GList, head first                            *)
(* A terminal's pvt->active (its link in active_terminals, or NULL) is the *)
(* boolean field active.                                                   *)
(***************************************************************************)
Scr(t) == IF t.screen = "normal" THEN t.normal_screen ELSE t.alternate_screen

WithScr(t, s) ==
    IF t.screen = "normal" THEN [t EXCEPT !.normal_screen = s]
    ELSE [t EXCEPT !.alternate_screen = s]

SetT(w, tid, t) == [w EXCEPT !.terms[tid] = t]
SetS(w, tid, s) == [w EXCEPT !.terms[tid] = WithScr(@, s)]
TScr(w, tid) == Scr(w.terms[tid])

RemoveFirst(seq, x) ==
    IF \E i \in 1..Len(seq) : seq[i] = x
    THEN LET i == CHOOSE i \in 1..Len(seq) :
                      seq[i] = x /\ \A j \in 1..(i - 1) : seq[j] # x
         IN SubSeq(seq, 1, i - 1) \o SubSeq(seq, i + 1, Len(seq))
    ELSE seq

\* the update timer started and the process timer left scheduled
add_update_timeout_process_kept(w, tid) ==
    [w EXCEPT !.update_timeout_tag = IF @ = 0 THEN 1 ELSE @,
              !.terms[tid].active = TRUE,
              !.active_terminals =
                  IF ~w.terms[tid].active THEN <<tid>> \o @ ELSE @]

\* the terminal put in front of the list whether it is on it or not
add_update_timeout_prepends_again(w, tid) ==
    [w EXCEPT !.update_timeout_tag = IF @ = 0 THEN 1 ELSE @,
              !.process_timeout_tag =
                  IF ~w.in_process_timeout /\ @ # 0 THEN 0 ELSE @,
              !.terms[tid].active = TRUE,
              !.active_terminals = <<tid>> \o @]

add_update_timeout(w, tid) ==
    [w EXCEPT !.update_timeout_tag = IF @ = 0 THEN 1 ELSE @,
              !.process_timeout_tag =
                  IF ~w.in_process_timeout /\ @ # 0 THEN 0 ELSE @,
              !.terms[tid].active = TRUE,
              !.active_terminals =
                  IF ~w.terms[tid].active THEN <<tid>> \o @ ELSE @]

reset_update_regions(w, tid) ==
    [w EXCEPT !.terms[tid].update_regions = FALSE,
              !.terms[tid].invalidated_all =
                  (w.terms[tid].visibility_state = "fully_obscured")]

remove_from_active_list(w, tid) ==
    LET rest == RemoveFirst(w.active_terminals, tid)
    IN IF w.terms[tid].active /\ ~w.terms[tid].update_regions
       THEN [w EXCEPT
               !.active_terminals = rest,
               !.terms[tid].active = FALSE,
               !.process_timeout_tag =
                   IF rest = <<>> /\ ~w.in_process_timeout THEN 0 ELSE @,
               !.update_timeout_tag =
                   IF rest = <<>> /\ ~w.in_update_timeout THEN 0 ELSE @]
       ELSE w

remove_update_timeout(w, tid) ==
    remove_from_active_list(reset_update_regions(w, tid), tid)

\* the terminal put on the active list without a timer being started
add_process_timeout_unscheduled(w, tid) ==
    [w EXCEPT !.terms[tid].active = TRUE,
              !.active_terminals = <<tid>> \o @]

vte_terminal_add_process_timeout(w, tid) ==
    [w EXCEPT !.terms[tid].active = TRUE,
              !.active_terminals = <<tid>> \o @,
              !.process_timeout_tag =
                  IF w.update_timeout_tag = 0 /\ @ = 0 THEN 1 ELSE @]

vte_terminal_is_processing(w, tid) == w.terms[tid].active

vte_terminal_start_processing(w, tid) ==
    IF ~vte_terminal_is_processing(w, tid)
    THEN vte_terminal_add_process_timeout(w, tid)
    ELSE w

vte_terminal_stop_processing(w, tid) == remove_from_active_list(w, tid)

(***************************************************************************)
(* Invalidation.  update_regions is modelled by "the list is non-empty".   *)
(***************************************************************************)
vte_invalidate_all(w, tid) ==
    LET t == w.terms[tid]
    IN IF ~t.realized THEN w
       ELSE IF t.invalidated_all THEN w
       ELSE The({ IF w2.terms[tid].active
                  THEN add_update_timeout(
                           [w2 EXCEPT !.terms[tid].update_regions = TRUE], tid)
                  ELSE w2
                  : w2 \in {[reset_update_regions(w, tid)
                                EXCEPT !.terms[tid].invalidated_all = TRUE]} })

vte_invalidate_cells(w, tid, column_start, column_count, row_start0, row_count) ==
    LET t == w.terms[tid]
        row_start == row_start0 - Scr(t).scroll_delta
        rs == Max(0, row_start)
        rc == Clamp(row_start + row_count - rs, 0, t.row_count)
        cs == Max(0, column_start)
        cc == Clamp(column_start + column_count - cs, 0, t.column_count)
    IN
    IF ~t.realized THEN w
    ELSE IF column_count = 0 \/ row_count = 0 THEN w
    ELSE IF t.invalidated_all THEN w
    ELSE IF column_start > t.column_count \/ row_start > t.row_count THEN w
    ELSE IF cc = 0 \/ rc = 0 THEN w
    ELSE IF cc = t.column_count /\ rc = t.row_count THEN vte_invalidate_all(w, tid)
    ELSE IF t.active
         THEN add_update_timeout(
                  [w EXCEPT !.terms[tid].update_regions = TRUE], tid)
         ELSE w

vte_terminal_scroll_region(w, tid, row, count, delta) ==
    IF delta = 0 \/ count = 0 THEN w
    ELSE IF count >= w.terms[tid].row_count THEN vte_invalidate_all(w, tid)
    ELSE vte_invalidate_cells(w, tid, 0, w.terms[tid].column_count, row, count)

(***************************************************************************)
(* The vertical GtkAdjustment (lower, upper, page_size, value) and the     *)
(* scroll deltas.                                                          *)
(***************************************************************************)
vte_terminal_queue_contents_changed(w, tid) ==
    [w EXCEPT !.terms[tid].contents_changed_pending = TRUE]

vte_terminal_handle_scroll(w, tid) ==
    LET t == w.terms[tid]
        adj == t.vadjustment.value
        dy == adj - Scr(t).scroll_delta
    IN The({ IF ~t.realized THEN w1
             ELSE IF t.visibility_state = "fully_obscured" THEN w1
             ELSE IF dy # 0
                  THEN vte_terminal_queue_contents_changed(
                           vte_terminal_scroll_region(w1, tid, adj, t.row_count, -dy),
                           tid)
                  ELSE w1
             : w1 \in {SetS(w, tid, [Scr(t) EXCEPT !.scroll_delta = adj])} })

\* gtk_adjustment_set_value: clamp into [lower, upper - page_size], emit
\* value-changed (connected to vte_terminal_handle_scroll) on a change
gtk_adjustment_set_value(w, tid, value) ==
    LET a == w.terms[tid].vadjustment
        v == Max(Min(value, a.upper - a.page_size), a.lower)
    IN IF v # a.value
       THEN vte_terminal_handle_scroll(
                [w EXCEPT !.terms[tid].vadjustment.value = v], tid)
       ELSE w

vte_terminal_emit_adjustment_changed(w, tid) ==
    LET t == w.terms[tid]
        s == Scr(t)
    IN The({ LET t1 == w1.terms[tid]
                 v == t1.vadjustment.value
                 delta == Scr(t1).scroll_delta
             IN IF t1.adjustment_value_changed_pending
                THEN IF v # delta
                     THEN gtk_adjustment_set_value(
                              SetS([w1 EXCEPT !.terms[tid].adjustment_value_changed_pending = FALSE],
                                   tid, [Scr(t1) EXCEPT !.scroll_delta = v]), tid, delta)
                     ELSE [w1 EXCEPT !.terms[tid].adjustment_value_changed_pending = FALSE]
                ELSE w1
             : w1 \in {IF t.adjustment_changed_pending
                       THEN [w EXCEPT
                               !.terms[tid].vadjustment.lower = ring_delta(s.row_data),
                               !.terms[tid].vadjustment.upper =
                                   Max(ring_next(s.row_data), s.cursor_current.row + 1),
                               !.terms[tid].adjustment_changed_pending = FALSE]
                       ELSE w} })

vte_terminal_queue_adjustment_changed(w, tid) ==
    add_update_timeout([w EXCEPT !.terms[tid].adjustment_changed_pending = TRUE], tid)

vte_terminal_queue_adjustment_value_changed(w, tid, v) ==
    IF v # TScr(w, tid).scroll_delta
    THEN add_update_timeout(
             [SetS(w, tid, [TScr(w, tid) EXCEPT !.scroll_delta = v])
                 EXCEPT !.terms[tid].adjustment_value_changed_pending = TRUE], tid)
    ELSE w

vte_terminal_queue_adjustment_value_changed_clamped(w, tid, v) ==
    LET a == w.terms[tid].vadjustment
    IN vte_terminal_queue_adjustment_value_changed(w, tid,
           Clamp(v, a.lower, Max(a.lower, a.upper - w.terms[tid].row_count)))

vte_terminal_adjust_adjustments(w, tid) ==
    The({ LET s == TScr(w1, tid)
              delta == ring_delta(s.row_data)
              insert_delta == Max(s.insert_delta, delta)
              s1 == [s EXCEPT !.insert_delta = insert_delta,
                              !.cursor_current.row = Max(@, insert_delta)]
          IN IF s1.scroll_delta > s1.insert_delta
             THEN vte_terminal_queue_adjustment_value_changed(
                      SetS(w1, tid, s1), tid, s1.insert_delta)
             ELSE SetS(w1, tid, s1)
          : w1 \in {vte_terminal_queue_adjustment_changed(w, tid)} })

vte_terminal_adjust_adjustments_full(w, tid) ==
    [vte_terminal_adjust_adjustments(w, tid)
        EXCEPT !.terms[tid].vadjustment.page_size = w.terms[tid].row_count]

vte_terminal_maybe_scroll_to_bottom(w, tid) ==
    vte_terminal_queue_adjustment_value_changed(w, tid, TScr(w, tid).insert_delta)

(***************************************************************************)
(* Rows of the active screen.                                              *)
(***************************************************************************)
RECURSIVE ring_append_n(_, _)
ring_append_n(ring, n) ==
    IF n <= 0 THEN ring ELSE ring_append_n(ring_append(ring), n - 1)

\* row pointer dereference: the row at ring index i of the active screen
RowAt(w, tid, i) == ring_index(TScr(w, tid).row_data, i)
SetRow(w, tid, i, row) ==
    SetS(w, tid, [TScr(w, tid) EXCEPT !.row_data = ring_set(@, i, row)])

Crash(w, tid) == [w EXCEPT !.terms[tid].crashed = TRUE]

\* rows appended (filled) while next < position, then the ring insert
RECURSIVE ring_fill_to(_, _, _, _)
ring_fill_to(ring, position, cell, columns) ==
    IF ring_next(ring) < position
    THEN LET r1 == ring_append(ring)
             i == ring_next(r1) - 1
         IN ring_fill_to(IF ring_contains(r1, i)
                         THEN ring_set(r1, i, row_data_fill(ring_index(r1, i), cell, columns))
                         ELSE r1,
                         position, cell, columns)
    ELSE ring

\* the insertion forgotten
buffer_ring_insert_skipped(w, tid, position, fill) == w

vte_buffer_ring_insert(w, tid, position, fill) ==
    LET t == w.terms[tid]
        s == Scr(t)
    IN The({ SetS(w, tid,
                 [s EXCEPT !.row_data =
                     IF fill /\ ring_contains(r2, position)
                     THEN ring_set(r2, position,
                              row_data_fill(ring_index(r2, position),
                                            s.fill_defaults, t.column_count))
                     ELSE r2])
             : r2 \in {ring_insert(
                           ring_fill_to(s.row_data, position, s.fill_defaults,
                                        t.column_count),
                           position)} })

\* the removal forgotten
buffer_ring_remove_skipped(w, tid, position) == w

vte_buffer_ring_remove(w, tid, position) ==
    SetS(w, tid, [TScr(w, tid) EXCEPT !.row_data = ring_remove(@, position)])

vte_terminal_insert_rows(w, tid, cnt) ==
    SetS(w, tid, [TScr(w, tid) EXCEPT !.row_data = ring_append_n(@, cnt)])

\* Returns the world and the ring index of the row the C code holds a
\* pointer to.  Indexing a row below delta() is an assertion failure.
vte_terminal_ensure_row(w, tid) ==
    LET s == TScr(w, tid)
        v == s.cursor_current.row
        delta == v - ring_next(s.row_data) + 1
    IN IF delta > 0
       THEN [w |-> vte_terminal_adjust_adjustments(
                       vte_terminal_insert_rows(w, tid, delta), tid),
             row |-> v]
       ELSE IF ring_contains(s.row_data, v)
            THEN [w |-> w, row |-> v]
            ELSE [w |-> Crash(w, tid), row |-> ring_delta(s.row_data)]

FillRowAt(w, tid, i, cell, len) ==
    IF ring_contains(TScr(w, tid).row_data, i)
    THEN SetRow(w, tid, i, row_data_fill(RowAt(w, tid, i), cell, len))
    ELSE Crash(w, tid)

vte_terminal_ensure_cursor(w, tid) ==
    The({ [w |-> FillRowAt(e.w, tid, e.row, basic_cell,
                           TScr(e.w, tid).cursor_current.col),
           row |-> e.row]
          : e \in {vte_terminal_ensure_row(w, tid)} })

vte_terminal_update_insert_delta(w, tid) ==
    LET s == TScr(w, tid)
        d0 == s.cursor_current.row - ring_next(s.row_data) + 1
    IN The({ LET s1 == TScr(w1, tid)
                 rows == ring_next(s1.row_data)
                 row_count == w1.terms[tid].row_count
                 delta == Max(Max(Min(s1.insert_delta, rows - row_count),
                                  s1.cursor_current.row - (row_count - 1)),
                              ring_delta(s1.row_data))
             IN IF delta # s1.insert_delta
                THEN vte_terminal_adjust_adjustments(
                         SetS(w1, tid, [s1 EXCEPT !.insert_delta = delta]), tid)
                ELSE w1
             : w1 \in {IF d0 > 0 THEN vte_terminal_insert_rows(w, tid, d0) ELSE w} })

\* the cell where a run of fragments ending at col begins
RECURSIVE FragmentStart(_, _)
FragmentStart(row, col) ==
    IF col > 0 /\ HasCell(row, col) /\ row_data_get(row, col).fragment
    THEN FragmentStart(row, col - 1)
    ELSE col

RECURSIVE ResetCells(_, _, _, _)
ResetCells(row, col, n, cell) ==
    IF n <= 0 \/ ~HasCell(row, col) THEN row
    ELSE ResetCells(SetCell(row, col, cell), col + 1, n - 1, cell)

vte_terminal_cleanup_tab_fragments_at_cursor(w, tid) ==
    The({ LET s == TScr(e.w, tid)
              col == s.cursor_current.col
              row == RowAt(e.w, tid, e.row)
              c0 == FragmentStart(row, col)
              n == row_data_get(row, c0).columns
          IN IF e.w.terms[tid].crashed THEN e.w
             ELSE IF HasCell(row, col) /\ row_data_get(row, col).c = <<TabChar>>
                  THEN SetRow(e.w, tid, e.row, ResetCells(row, c0, n, s.fill_defaults))
                  ELSE e.w
          : e \in {vte_terminal_ensure_row(w, tid)} })

FillCursorRow(w, tid) ==
    LET s == TScr(w, tid)
    IN IF s.fill_defaults.back # VTE_DEF_BG
       THEN The({ FillRowAt(e.w, tid, e.row, s.fill_defaults,
                            w.terms[tid].column_count)
                  : e \in {vte_terminal_ensure_row(w, tid)} })
       ELSE w

vte_terminal_cursor_down(w, tid) ==
    LET t == w.terms[tid]
        s == Scr(t)
        start == IF s.scrolling_restricted
                 THEN s.insert_delta + s.scrolling_region.start
                 ELSE s.insert_delta
        end == IF s.scrolling_restricted
               THEN s.insert_delta + s.scrolling_region.end
               ELSE start + t.row_count - 1
    IN IF s.cursor_current.row = end
       THEN FillCursorRow(
                The({ LET s1 == TScr(w1, tid)
                          s2 == [s1 EXCEPT !.insert_delta = @ + 1,
                                           !.scroll_delta = @ + 1,
                                           !.cursor_current.row = @ + 1]
                      IN IF s1.scrolling_restricted
                         THEN IF start = s1.insert_delta
                              THEN vte_terminal_adjust_adjustments(
                                       vte_terminal_scroll_region(
                                           vte_buffer_ring_insert(SetS(w1, tid, s2), tid,
                                               s2.cursor_current.row, FALSE),
                                           tid, start + 1, end - start + 1, 1),
                                       tid)
                              ELSE vte_invalidate_cells(
                                       vte_terminal_scroll_region(
                                           vte_buffer_ring_insert(
                                               vte_buffer_ring_remove(w1, tid, start),
                                               tid, end, TRUE),
                                           tid, start, end - start + 1, -1),
                                       tid, 0, t.column_count, end - 2, 2)
                         ELSE vte_terminal_update_insert_delta(
                                  SetS(w1, tid, [s1 EXCEPT !.cursor_current.row = @ + 1]),
                                  tid)
                      : w1 \in {FillCursorRow(w, tid)} }),
                tid)
       ELSE SetS(w, tid, [s EXCEPT !.cursor_current.row = @ + 1])

(***************************************************************************)
(* The insertion engine: _vte_terminal_insert_char.                        *)
(* alternate_charset, status_line and the ul capability are off.           *)
(***************************************************************************)
\* the autowrap before the character (cursor moved before the insertion)
insert_char_line_wrapped(w, tid, c) ==
    unichar_width(c) # 0 /\
    TScr(w, tid).cursor_current.col + unichar_width(c) > w.terms[tid].column_count

\* the wrap before the character left out: the cursor stays at the margin
\* as it does without am
autowrap_stays_at_margin(w, tid, columns) ==
    LET t == w.terms[tid]
        s == Scr(t)
    IN IF columns # 0 /\ s.cursor_current.col + columns > t.column_count
       THEN SetS(w, tid, [s EXCEPT !.cursor_current.col = t.column_count - columns])
       ELSE w

insert_char_autowrap(w, tid, columns) ==
    LET t == w.terms[tid]
        s == Scr(t)
    IN IF columns # 0 /\ s.cursor_current.col + columns > t.column_count
       THEN IF t.flags_am
            THEN The({ IF e.w.terms[tid].crashed THEN e.w
                       ELSE vte_terminal_cursor_down(
                                SetRow(e.w, tid, e.row,
                                       [RowAt(e.w, tid, e.row)
                                           EXCEPT !.soft_wrapped = TRUE]),
                                tid)
                       : e \in {vte_terminal_ensure_row(
                                    SetS(w, tid, [s EXCEPT !.cursor_current.col = 0]),
                                    tid)} })
            ELSE SetS(w, tid, [s EXCEPT !.cursor_current.col = t.column_count - columns])
       ELSE w

\* cell->c = c for the columns cells from col on; a missing cell is a NULL
\* dereference
RECURSIVE SetChars(_, _, _, _)
SetChars(row, col, n, c) ==
    IF n <= 0 \/ ~HasCell(row, col) THEN row
    ELSE SetChars(SetCell(row, col, [row_data_get(row, col) EXCEPT !.c = c]),
                  col + 1, n - 1, c)

\* where the combining mark c goes: the row and the column of the cell it
\* is merged into, or found = FALSE when the mark is dropped
CombiningTarget(w, tid) ==
    LET s == TScr(w, tid)
        col0 == s.cursor_current.col
        row_num0 == s.cursor_current.row
        up == col0 = 0
        row_num == IF up /\ row_num0 > 0 THEN row_num0 - 1 ELSE row_num0
        hasrow == IF up
                  THEN row_num0 > 0 /\ ring_contains(s.row_data, row_num)
                       /\ ring_index(s.row_data, row_num).soft_wrapped
                  ELSE ring_contains(s.row_data, row_num)
        col1 == IF up /\ hasrow
                THEN row_data_length(ring_index(s.row_data, row_num))
                ELSE col0
    IN IF ~hasrow \/ col1 = 0 THEN [found |-> FALSE, row |-> row_num, col |-> 0]
       ELSE LET row == ring_index(s.row_data, row_num)
            IN IF ~HasCell(row, col1 - 1) THEN [found |-> FALSE, row |-> row_num, col |-> 0]
               ELSE LET col == FragmentStart(row, col1 - 1)
                    IN IF row_data_get(row, col).c = <<TabChar>>
                       THEN [found |-> FALSE, row |-> row_num, col |-> col]
                       ELSE [found |-> TRUE, row |-> row_num, col |-> col]

insert_char_combining(w, tid, c) ==
    The({ LET row == RowAt(w, tid, tg.row)
              cell == row_data_get(row, tg.col)
              columns == cell.columns
              written == SetRow(w, tid, tg.row,
                             SetChars(row, tg.col, columns,
                                      unistr_append_unichar(cell.c, c)))
          IN IF ~tg.found THEN w
             ELSE [vte_invalidate_cells(
                       IF tg.col + columns > row_data_length(row)
                       THEN Crash(written, tid) ELSE written,
                       tid, tg.col, columns, tg.row, 1)
                     EXCEPT !.terms[tid].text_inserted_flag = TRUE]
          : tg \in {CombiningTarget(w, tid)} })

RECURSIVE InsertCells(_, _, _, _)
InsertCells(row, col, n, cell) ==
    IF n <= 0 THEN row
    ELSE InsertCells(row_data_insert(row, col, cell), col + 1, n - 1, cell)

\* the fragments from col2 on become single-column blanks
RECURSIVE BreakFragments(_, _)
BreakFragments(row, col2) ==
    IF HasCell(row, col2) /\ row_data_get(row, col2).fragment
    THEN BreakFragments(
             SetCell(row, col2, [row_data_get(row, col2) EXCEPT !.columns = 1,
                                                                !.c = <<NulChar>>]),
             col2 + 1)
    ELSE row

\* the cell before col that begins the run of fragments gets the columns
\* it has left
BreakBefore(row, col) ==
    IF col > 0
    THEN LET col2 == FragmentStart(row, col - 1)
         IN SetCell(row, col2, [row_data_get(row, col2) EXCEPT !.columns = col - col2])
    ELSE row

RECURSIVE WriteFragments(_, _, _, _)
WriteFragments(row, col, n, cell) ==
    IF n <= 0 THEN row
    ELSE WriteFragments(SetCell(row, col, cell), col + 1, n - 1, cell)

\* room made for the character also when insert is off
insert_char_row_always_shifted(row0, s, col, c, columns, insert, column_count) ==
    LET row1 == InsertCells(row_data_fill(row0, basic_cell, col), col, columns,
                            s.color_defaults)
        row2 == BreakBefore(row1, col)
        row3 == BreakFragments(row2, col + columns)
        attr == [s.defaults EXCEPT !.c = <<c>>, !.columns = columns,
                                   !.fragment = FALSE]
        row4 == SetCell(row3, col, attr)
        row5 == WriteFragments(row4, col + 1, columns - 1,
                               [attr EXCEPT !.fragment = TRUE])
    IN row_data_shrink(row5, column_count)

\* the cells written and the row not cut to the width
insert_char_row_not_shrunk(row0, s, col, c, columns, insert, column_count) ==
    LET row1 == IF insert
                THEN InsertCells(row0, col, columns, s.color_defaults)
                ELSE row_data_fill(row0, basic_cell, col + columns)
        row2 == BreakBefore(row1, col)
        row3 == BreakFragments(row2, col + columns)
        attr == [s.defaults EXCEPT !.c = <<c>>, !.columns = columns,
                                   !.fragment = FALSE]
        row4 == SetCell(row3, col, attr)
    IN WriteFragments(row4, col + 1, columns - 1, [attr EXCEPT !.fragment = TRUE])

\* what the insertion makes of the cursor's row: room for the character,
\* the wide characters it breaks turned into single cells, the cell and
\* its fragments, and the row cut to column_count
insert_char_row(row0, s, col, c, columns, insert, column_count) ==
    LET row1 == IF insert
                THEN InsertCells(row0, col, columns, s.color_defaults)
                ELSE row_data_fill(row0, basic_cell, col + columns)
        row2 == BreakBefore(row1, col)
        row3 == BreakFragments(row2, col + columns)
        attr == [s.defaults EXCEPT !.c = <<c>>, !.columns = columns,
                                   !.fragment = FALSE]
        row4 == SetCell(row3, col, attr)
        row5 == WriteFragments(row4, col + 1, columns - 1,
                               [attr EXCEPT !.fragment = TRUE])
    IN row_data_shrink(row5, column_count)

\* the wrap after the character with the row left unmarked
autowrap_here_row_not_marked(w, tid, rownum) ==
    LET t == w.terms[tid]
        s == Scr(t)
    IN IF s.cursor_current.col >= t.column_count /\ t.flags_am /\ ~t.flags_xn
       THEN vte_terminal_cursor_down(
                SetS(w, tid, [s EXCEPT !.cursor_current.col = 0]), tid)
       ELSE w

\* the wrap after the character, made without looking at xn
autowrap_here_without_xn(w, tid, rownum) ==
    LET t == w.terms[tid]
        s == Scr(t)
    IN IF s.cursor_current.col >= t.column_count /\ t.flags_am
       THEN vte_terminal_cursor_down(
                SetRow(SetS(w, tid, [s EXCEPT !.cursor_current.col = 0]),
                       tid, rownum,
                       [RowAt(w, tid, rownum) EXCEPT !.soft_wrapped = TRUE]),
                tid)
       ELSE w

\* "If we're autowrapping *here*, do it": the cursor has been moved past
\* the character written into the row at rownum
insert_char_autowrap_here(w, tid, rownum) ==
    LET t == w.terms[tid]
        s == Scr(t)
    IN IF s.cursor_current.col >= t.column_count /\ t.flags_am /\ ~t.flags_xn
       THEN vte_terminal_cursor_down(
                SetRow(SetS(w, tid, [s EXCEPT !.cursor_current.col = 0]),
                       tid, rownum,
                       [RowAt(w, tid, rownum) EXCEPT !.soft_wrapped = TRUE]),
                tid)
       ELSE w

\* the character written at the cursor of the row at rownum, the cursor
\* moved past it
insert_char_write(w, tid, rownum, c, columns, insert) ==
    LET t == w.terms[tid]
        s == Scr(t)
        col == s.cursor_current.col
        col1 == col + columns
        w2 == SetRow(w, tid, rownum,
                     insert_char_row(RowAt(w, tid, rownum), s, col, c, columns,
                                     insert, t.column_count))
    IN The({ [insert_char_autowrap_here(
                  SetS(w3, tid, [TScr(w3, tid) EXCEPT !.cursor_current.col = col1]),
                  tid, rownum)
                EXCEPT !.terms[tid].text_inserted_flag = TRUE]
             : w3 \in {IF insert
                       THEN vte_invalidate_cells(w2, tid, col1 - columns,
                                t.column_count, s.cursor_current.row, 1)
                       ELSE w2} })

insert_char_place(w, tid, c, columns, insert) ==
    The({ The({ IF w1.terms[tid].crashed THEN w1
                ELSE insert_char_write(w1, tid, e.row, c, columns, insert)
                : w1 \in {IF e.w.terms[tid].crashed THEN e.w
                          ELSE vte_terminal_cleanup_tab_fragments_at_cursor(e.w, tid)} })
          : e \in {vte_terminal_ensure_cursor(w, tid)} })

vte_terminal_insert_char(w, tid, c, insertArg) ==
    LET columns == unichar_width(c)
        insert == insertArg \/ TScr(w, tid).insert_mode
    IN The({ IF w1.terms[tid].crashed THEN w1
             ELSE IF columns = 0 THEN insert_char_combining(w1, tid, c)
             ELSE insert_char_place(w1, tid, c, columns, insert)
             : w1 \in {insert_char_autowrap(w, tid, columns)} })

(***************************************************************************)
(* The incoming chunks.  A chunk is the sequence of its bytes (len is the  *)
(* length of the sequence); incoming is the chunk list, head (the chunk    *)
(* fed last) first; free_chunks is the number of chunks in the free list.  *)
(***************************************************************************)
get_chunk(w) ==
    IF w.free_chunks > 0 THEN [w EXCEPT !.free_chunks = @ - 1] ELSE w

release_chunk(w) == [w EXCEPT !.free_chunks = @ + 1]

\* the head of the free list has len = (number of chunks) - 1
prune_chunks(w, len) ==
    IF len # 0 /\ w.free_chunks # 0
    THEN IF w.free_chunks - 1 > len
         THEN [w EXCEPT !.free_chunks = len + 1]
         ELSE w
    ELSE [w EXCEPT !.free_chunks = 0]

RECURSIVE SumLen(_)
SumLen(chunks) ==
    IF chunks = <<>> THEN 0 ELSE Len(Head(chunks)) + SumLen(Tail(chunks))

incoming_chunks_length(chunks) == SumLen(chunks)
incoming_chunks_count(chunks) == Len(chunks)

incoming_chunks_release(w, tid) ==
    [w EXCEPT !.free_chunks = @ + Len(w.terms[tid].incoming),
              !.terms[tid].incoming = <<>>]

\* the list left as it is, newest chunk first
chunks_not_reversed(chunks) == chunks

incoming_chunks_reverse(chunks) ==
    [i \in 1..Len(chunks) |-> chunks[Len(chunks) + 1 - i]]

\* chunks (head first) go in front of the list
vte_terminal_feed_chunks(w, tid, chunks) ==
    [w EXCEPT !.terms[tid].incoming = chunks \o @]

\* the do-loop of vte_terminal_feed: chunk is the head of incoming
RECURSIVE feed_loop(_, _, _)
feed_loop(w, tid, data) ==
    LET chunk == Head(w.terms[tid].incoming)
        rem == ChunkData - Len(chunk)
        len == IF Len(data) < rem THEN Len(data) ELSE rem
        w1 == [w EXCEPT !.terms[tid].incoming[1] = chunk \o SubSeq(data, 1, len)]
    IN IF Len(data) - len = 0 THEN w1
       ELSE feed_loop(vte_terminal_feed_chunks(get_chunk(w1), tid, << <<>> >>),
                      tid, SubSeq(data, len + 1, Len(data)))

\* the data put into the chunks and the processing not started
feed_not_started(w, tid, data) ==
    IF Len(data) > 0
    THEN LET inc == w.terms[tid].incoming
             w1 == IF inc # <<>> /\ Len(data) < ChunkData - Len(Head(inc))
                   THEN w
                   ELSE vte_terminal_feed_chunks(get_chunk(w), tid, << <<>> >>)
         IN feed_loop(w1, tid, data)
    ELSE w

vte_terminal_feed(w, tid, data) ==
    IF Len(data) > 0
    THEN LET inc == w.terms[tid].incoming
             w1 == IF inc # <<>> /\ Len(data) < ChunkData - Len(Head(inc))
                   THEN w
                   ELSE vte_terminal_feed_chunks(get_chunk(w), tid, << <<>> >>)
         IN vte_terminal_start_processing(feed_loop(w1, tid, data), tid)
    ELSE w

(***************************************************************************)
(* vte_terminal_io_read with condition G_IO_IN.  pty_data is what the      *)
(* child has written and read() has not returned yet; read() on the empty  *)
(* non-blocking pty fails with EAGAIN.  The state of the loop:             *)
(*   chunks   the new chunks, head first                                   *)
(*   own      TRUE when chunk is the head of chunks, FALSE when it is the  *)
(*            head of incoming                                             *)
(***************************************************************************)
io_read_max_bytes(w, tid) ==
    LET n == IF w.terms[tid].active THEN Len(w.active_terminals) - 1 ELSE 0
    IN IF n # 0 THEN w.terms[tid].max_input_bytes \div n ELSE VTE_MAX_INPUT_READ

RECURSIVE io_read_loop(_, _, _, _, _, _)
io_read_loop(w, tid, chunks, own, bytes, first) ==
    LET t == w.terms[tid]
        cur0 == IF own THEN Head(chunks)
                ELSE IF t.incoming # <<>> THEN Head(t.incoming) ELSE <<>>
        fresh == (first /\ t.incoming = <<>>) \/ Len(cur0) >= (3 * ChunkData) \div 4
        w1 == IF fresh THEN get_chunk(w) ELSE w
        chunks1 == IF fresh THEN << <<>> >> \o chunks ELSE chunks
        own1 == own \/ fresh
        cur == IF fresh THEN <<>> ELSE cur0
        rem == ChunkData - Len(cur)
        avail == w1.terms[tid].pty_data
        len == Min(rem, Len(avail))
        filled == cur \o SubSeq(avail, 1, len)
        w2 == [w1 EXCEPT !.terms[tid].pty_data = SubSeq(avail, len + 1, Len(avail)),
                         !.terms[tid].incoming =
                             IF own1 THEN @ ELSE [@ EXCEPT ![1] = filled]]
        chunks2 == IF own1 THEN [chunks1 EXCEPT ![1] = filled] ELSE chunks1
        bytes1 == bytes + len
    IN IF bytes1 < io_read_max_bytes(w, tid) /\ Len(filled) = ChunkData
       THEN io_read_loop(w2, tid, chunks2, own1, bytes1, FALSE)
       ELSE [w |-> w2, chunks |-> chunks2, own |-> own1, bytes |-> bytes1,
             len |-> len, chunklen |-> Len(filled), short |-> Len(avail) < rem]

mark_input_source_invalid(w, tid) ==
    [w EXCEPT !.terms[tid].pty_input_source = FALSE]

vte_terminal_connect_pty_read(w, tid) ==
    IF ~w.terms[tid].pty_channel THEN w
    ELSE [w EXCEPT !.terms[tid].pty_input_source = TRUE]

vte_terminal_enable_input_source(w, tid) ==
    IF ~w.terms[tid].pty_channel THEN w
    ELSE [w EXCEPT !.terms[tid].pty_input_source = TRUE]

(***************************************************************************)
(* The decoder (iso2022.c, not part of src/vte.c): UTF-8 without shift     *)
(* sequences.  _vte_iso2022_process appends the code points of the         *)
(* complete characters of data and returns the number of bytes it took;    *)
(* an incomplete character at the end is left, a byte that cannot begin or *)
(* continue a character gives the substitute.                              *)
(***************************************************************************)
IsCont(b) == b >= 128 /\ b < 192
LeadLen(b) == IF b < 128 THEN 1
              ELSE IF b >= 192 /\ b < 224 THEN 2
              ELSE IF b >= 224 /\ b < 240 THEN 3
              ELSE 0

RECURSIVE iso2022_process(_)
iso2022_process(data) ==
    IF data = <<>> THEN [chars |-> <<>>, processed |-> 0]
    ELSE LET b == Head(data)
             n == LeadLen(b)
             one(c, k) == LET r == iso2022_process(SubSeq(data, k + 1, Len(data)))
                          IN [chars |-> <<c>> \o r.chars, processed |-> k + r.processed]
         IN IF n = 1 THEN one(b, 1)
            ELSE IF n = 0 THEN one(SubstituteChar, 1)
            ELSE IF \E i \in 2..Min(n, Len(data)) : ~IsCont(data[i])
                 THEN one(SubstituteChar, 1)
            ELSE IF Len(data) < n THEN [chars |-> <<>>, processed |-> 0]
            ELSE IF n = 2 THEN one((b - 192) * 64 + (data[2] - 128), 2)
            ELSE one((b - 224) * 4096 + (data[2] - 128) * 64 + (data[3] - 128), 3)

\* the bytes of a code point
utf8(c) ==
    IF c < 128 THEN <<c>>
    ELSE IF c < 2048 THEN <<192 + (c \div 64), 128 + (c % 64)>>
    ELSE <<224 + (c \div 4096), 128 + ((c \div 64) % 64), 128 + (c % 64)>>

RECURSIVE utf8_string(_)
utf8_string(chars) ==
    IF chars = <<>> THEN <<>> ELSE utf8(Head(chars)) \o utf8_string(Tail(chars))

(***************************************************************************)
(* The matcher (matcher.c, not part of src/vte.c) over the sequences of    *)
(* the emulation that the model uses.  _vte_matcher_match gives            *)
(*   match = the name, next = one past the sequence, params = the numbers  *)
(*           of the sequence: a sequence begins the buffer at start        *)
(*   match = "" (the empty string), next = the end: the rest of the buffer *)
(*           is the beginning of a sequence                                *)
(*   match = "NULL", next = the first code point that cannot continue a    *)
(*           sequence (start + 1 when the one at start begins none)        *)
(***************************************************************************)
SeqCR == <<13>>
SeqLF == <<10>>
SeqBS == <<8>>
SeqCUF == <<27, 91, 67>>
SeqIRMOn == <<27, 91, 52, 104>>
SeqIRMOff == <<27, 91, 52, 108>>
SeqCS12 == <<27, 91, 50, 59, 51, 114>>   \* ESC [ 2 ; 3 r
SeqCS01 == <<27, 91, 49, 59, 50, 114>>   \* ESC [ 1 ; 2 r

SequenceTable ==
    { [seq |-> SeqCR, name |-> "cr", params |-> <<>>],
      [seq |-> SeqLF, name |-> "do", params |-> <<>>],
      [seq |-> SeqBS, name |-> "le", params |-> <<>>],
      [seq |-> SeqCUF, name |-> "nd", params |-> <<>>],
      [seq |-> SeqIRMOn, name |-> "im", params |-> <<>>],
      [seq |-> SeqIRMOff, name |-> "ei", params |-> <<>>],
      [seq |-> SeqCS12, name |-> "cs", params |-> <<2, 3>>],
      [seq |-> SeqCS01, name |-> "cs", params |-> <<1, 2>>] }

IsPrefix(a, b) == Len(a) <= Len(b) /\ SubSeq(b, 1, Len(a)) = a

matcher_match(wbuf, start) ==
    LET rest == SubSeq(wbuf, start + 1, Len(wbuf))
        full == {e \in SequenceTable : IsPrefix(e.seq, rest)}
        common == {k \in 0..Len(rest) :
                      \E e \in SequenceTable : IsPrefix(SubSeq(rest, 1, k), e.seq)}
        k == CHOOSE k \in common : \A j \in common : j <= k
    IN IF full # {}
       THEN LET e == CHOOSE e \in full : TRUE
            IN [match |-> e.name, next |-> start + Len(e.seq), params |-> e.params]
       ELSE IF k = Len(rest) /\ rest # <<>>
            THEN [match |-> "", next |-> Len(wbuf), params |-> <<>>]
       ELSE [match |-> "NULL", next |-> IF k = 0 THEN start + 1 ELSE start + k,
             params |-> <<>>]

(***************************************************************************)
(* The sequence handlers (vteseq.c, not part of src/vte.c).                *)
(***************************************************************************)
vte_sequence_handler_cr(w, tid) ==
    SetS(w, tid, [TScr(w, tid) EXCEPT !.cursor_current.col = 0])

vte_sequence_handler_do(w, tid) == vte_terminal_cursor_down(w, tid)

vte_sequence_handler_le(w, tid) ==
    IF TScr(w, tid).cursor_current.col > 0
    THEN vte_terminal_cleanup_tab_fragments_at_cursor(
             SetS(w, tid, [TScr(w, tid) EXCEPT !.cursor_current.col = @ - 1]), tid)
    ELSE w

vte_sequence_handler_nd(w, tid) ==
    IF TScr(w, tid).cursor_current.col + 1 < w.terms[tid].column_count
    THEN SetS(w, tid, [TScr(w, tid) EXCEPT !.cursor_current.col = @ + 1])
    ELSE w

vte_sequence_handler_im(w, tid) ==
    SetS(w, tid, [TScr(w, tid) EXCEPT !.insert_mode = TRUE])

vte_sequence_handler_ei(w, tid) ==
    SetS(w, tid, [TScr(w, tid) EXCEPT !.insert_mode = FALSE])

\* set the scrolling region to the rows params[1]..params[2] (counted
\* from 1) of the visible area, kept within [0, row_count - 1]
vte_sequence_handler_cs(w, tid, params) ==
    LET rc == w.terms[tid].row_count
    IN SetS(w, tid, [TScr(w, tid) EXCEPT
                        !.scrolling_region = [start |-> Clamp(params[1] - 1, 0, rc - 1),
                                              end |-> Clamp(params[2] - 1, 0, rc - 1)],
                        !.scrolling_restricted = TRUE])

vte_terminal_handle_sequence(w, tid, match, params) ==
    IF match = "cr" THEN vte_sequence_handler_cr(w, tid)
    ELSE IF match = "do" THEN vte_sequence_handler_do(w, tid)
    ELSE IF match = "le" THEN vte_sequence_handler_le(w, tid)
    ELSE IF match = "nd" THEN vte_sequence_handler_nd(w, tid)
    ELSE IF match = "im" THEN vte_sequence_handler_im(w, tid)
    ELSE IF match = "ei" THEN vte_sequence_handler_ei(w, tid)
    ELSE IF match = "cs" THEN vte_sequence_handler_cs(w, tid, params)
    ELSE w

(***************************************************************************)
(* vte_terminal_process_incoming.                                          *)
(* The terminal keeps three logs for the statements about the order of     *)
(* the data (kept only when its field trace is set): log_consumed, the     *)
(* bytes the decoder took; log_decoded, the code points appended to        *)
(* pending; log_handled, the code points given to the insertion engine     *)
(* and to the sequence handlers.                                           *)
(***************************************************************************)
LogDecoded(w, tid, bytes, chars) ==
    IF w.terms[tid].trace
    THEN [w EXCEPT !.terms[tid].log_consumed = @ \o bytes,
                   !.terms[tid].log_decoded = @ \o chars]
    ELSE w

\* a character left incomplete at the end of a chunk is completed from the next
LogShuffled(w, tid) ==
    IF w.terms[tid].trace
    THEN [w EXCEPT !.terms[tid].log_shuffled = @ + 1]
    ELSE w

LogHandled(w, tid, chars) ==
    IF w.terms[tid].trace
    THEN [w EXCEPT !.terms[tid].log_handled = @ \o chars]
    ELSE w

\* The loop over the reversed chunk list: chunks is the list from chunk
\* on (<<>> when chunk is NULL), achunk tells whether a chunk is cached.
\* Returns the world, the list left at chunk, and achunk.
RECURSIVE decode_chunks(_, _, _, _)
decode_chunks(w, tid, chunks, achunk) ==
    LET chunk == Head(chunks)
        rest == Tail(chunks)
    IN IF chunks = <<>> THEN [w |-> w, chunks |-> <<>>, achunk |-> achunk]
       ELSE IF Len(chunk) = 0
       THEN decode_chunks(IF achunk THEN release_chunk(w) ELSE w, tid, rest, TRUE)
       ELSE The({ The({
                LET left == SubSeq(chunk, d.processed + 1, Len(chunk))
                    processed == ChunkData - Len(left)
                IN IF d.processed # Len(chunk)
                   THEN IF processed # 0 /\ rest # <<>>
                        THEN IF Len(Head(rest)) <= processed
                             THEN decode_chunks(release_chunk(LogShuffled(w1, tid)), tid,
                                      <<left \o Head(rest)>> \o Tail(rest), achunk)
                             ELSE decode_chunks(LogShuffled(w1, tid), tid,
                                      <<left \o SubSeq(Head(rest), 1, processed),
                                        SubSeq(Head(rest), processed + 1,
                                               Len(Head(rest)))>>
                                      \o Tail(rest), achunk)
                        ELSE [w |-> w1, chunks |-> <<left>> \o rest, achunk |-> achunk]
                   ELSE decode_chunks(IF achunk THEN release_chunk(w1) ELSE w1,
                                      tid, rest, TRUE)
                : w1 \in {LogDecoded([w EXCEPT !.terms[tid].pending = @ \o d.chars],
                                     tid, SubSeq(chunk, 1, d.processed), d.chars)} })
              : d \in {iso2022_process(chunk)} })

process_incoming_decode(w, tid) ==
    The({ IF r.achunk
          THEN IF r.chunks # <<>>
               THEN [release_chunk(r.w) EXCEPT !.terms[tid].incoming = r.chunks]
               ELSE [r.w EXCEPT !.terms[tid].incoming = << <<>> >>]
          ELSE [r.w EXCEPT !.terms[tid].incoming = r.chunks]
          : r \in {decode_chunks(w, tid,
                       incoming_chunks_reverse(w.terms[tid].incoming), FALSE)} })

\* the bounding box of the pass and its invalidation
EmptyBBox == [tl_x |-> G_MAXINT, tl_y |-> G_MAXINT, br_x |-> -G_MAXINT, br_y |-> -G_MAXINT]

OutsideBBox(w, tid, b) ==
    LET cur == TScr(w, tid).cursor_current
    IN \/ cur.col > b.br_x + VTE_CELL_BBOX_SLACK
       \/ cur.col < b.tl_x - VTE_CELL_BBOX_SLACK
       \/ cur.row > b.br_y + VTE_CELL_BBOX_SLACK
       \/ cur.row < b.tl_y - VTE_CELL_BBOX_SLACK

InvalidateBBox(w, tid, b, delta) ==
    LET t == w.terms[tid]
        tl_x == Max(b.tl_x, 0)
        tl_y == Max(b.tl_y, delta)
        br_x == Min(b.br_x, t.column_count)
        br_y == Min(b.br_y + 1, delta + t.row_count)
    IN vte_invalidate_cells(w, tid, tl_x, br_x - tl_x, tl_y, br_y - tl_y)

\* move the control character at next in front of the code points from
\* start on
Permute(wbuf, start, next) ==
    [i \in 1..Len(wbuf) |->
        IF i = start + 1 THEN wbuf[next + 1]
        ELSE IF i > start + 1 /\ i <= next + 1 THEN wbuf[i - 1]
        ELSE wbuf[i]]

\* a matched control sequence: the handler has run and made w1
process_incoming_handled(L, tid, delta, w1, next) ==
    LET flush == L.invalidated_text /\ OutsideBBox(w1, tid, L.bbox)
    IN [L EXCEPT !.w = IF flush THEN InvalidateBBox(w1, tid, L.bbox, delta) ELSE w1,
                 !.start = next,
                 !.modified = TRUE,
                 !.invalidated_text = IF flush THEN FALSE ELSE @,
                 !.bbox = IF flush THEN EmptyBBox ELSE @]

\* a character: the insertion has made w1; b0 is the bounding box with the
\* cursor before the insertion added
process_incoming_inserted(L, tid, delta, w1, b0, wrapped) ==
    LET flush == wrapped /\ L.invalidated_text /\ OutsideBBox(w1, tid, b0)
        b1 == IF flush THEN EmptyBBox ELSE b0
    IN The({ LET cur == TScr(w2, tid).cursor_current
                 b2 == IF wrapped
                       THEN [b1 EXCEPT !.tl_x = Min(@, 0), !.tl_y = Min(@, cur.row)]
                       ELSE b1
             IN [L EXCEPT !.w = w2,
                          !.bbox = [b2 EXCEPT !.br_x = Max(@, cur.col),
                                              !.br_y = Max(@, cur.row)],
                          !.invalidated_text = TRUE,
                          !.modified = TRUE,
                          !.start = L.start + 1]
             : w2 \in {IF flush THEN InvalidateBBox(w1, tid, b0, delta) ELSE w1} })

\* one turn of the loop that moves a control character forward even when
\* it is the code point next to start
process_incoming_step_permute_adjacent(L, tid, delta) ==
    LET w == L.w
        wbuf == L.wbuf
        start == L.start
    IN The({
        IF m.match # "NULL" /\ m.match # ""
        THEN The({ process_incoming_handled(L, tid, delta, w1, m.next)
                   : w1 \in {vte_terminal_handle_sequence(
                                 LogHandled(w, tid, SubSeq(wbuf, start + 1, m.next)),
                                 tid, m.match, m.params)} })
        ELSE IF m.match = "NULL"
        THEN LET c == wbuf[start + 1]
                 nextc == IF m.next < Len(wbuf) THEN wbuf[m.next + 1] ELSE c
                 cur0 == TScr(w, tid).cursor_current
             IN IF c # nextc /\ nextc < 32
                   /\ matcher_match(wbuf, m.next).next = m.next + 1
                THEN [L EXCEPT !.wbuf = Permute(wbuf, start, m.next)]
                ELSE The({ process_incoming_inserted(L, tid, delta, w1,
                               [L.bbox EXCEPT !.tl_x = Min(@, cur0.col),
                                              !.tl_y = Min(@, cur0.row)],
                               insert_char_line_wrapped(w, tid, c))
                           : w1 \in {vte_terminal_insert_char(
                                         LogHandled(w, tid, <<c>>), tid, c, FALSE)} })
        ELSE IF Len(wbuf) > m.next
             THEN [L EXCEPT !.start = m.next + 1]
             ELSE [L EXCEPT !.leftovers = TRUE]
        : m \in {matcher_match(wbuf, start)} })

\* one turn of the matcher loop; L is the state of the loop
process_incoming_step(L, tid, delta) ==
    LET w == L.w
        wbuf == L.wbuf
        start == L.start
    IN The({
        IF m.match # "NULL" /\ m.match # ""
        THEN The({ process_incoming_handled(L, tid, delta, w1, m.next)
                   : w1 \in {vte_terminal_handle_sequence(
                                 LogHandled(w, tid, SubSeq(wbuf, start + 1, m.next)),
                                 tid, m.match, m.params)} })
        ELSE IF m.match = "NULL"
        THEN LET c == wbuf[start + 1]
                 nextc == IF m.next < Len(wbuf) THEN wbuf[m.next + 1] ELSE c
                 cur0 == TScr(w, tid).cursor_current
             IN IF c # nextc /\ nextc < 32 /\ start + 1 < m.next
                   /\ matcher_match(wbuf, m.next).next = m.next + 1
                THEN [L EXCEPT !.wbuf = Permute(wbuf, start, m.next)]
                ELSE The({ process_incoming_inserted(L, tid, delta, w1,
                               [L.bbox EXCEPT !.tl_x = Min(@, cur0.col),
                                              !.tl_y = Min(@, cur0.row)],
                               insert_char_line_wrapped(w, tid, c))
                           : w1 \in {vte_terminal_insert_char(
                                         LogHandled(w, tid, <<c>>), tid, c, FALSE)} })
        ELSE IF Len(wbuf) > m.next
             THEN [L EXCEPT !.start = m.next + 1]
             ELSE [L EXCEPT !.leftovers = TRUE]
        : m \in {matcher_match(wbuf, start)} })

RECURSIVE process_incoming_loop(_, _, _)
process_incoming_loop(L, tid, delta) ==
    IF L.start < Len(L.wbuf) /\ ~L.leftovers /\ ~L.w.terms[tid].crashed
    THEN process_incoming_loop(process_incoming_step(L, tid, delta), tid, delta)
    ELSE L

vte_invalidate_cell(w, tid, col, row) ==
    LET s == TScr(w, tid)
        has == ring_contains(s.row_data, row) /\ HasCell(ring_index(s.row_data, row), col)
        c0 == IF has THEN FragmentStart(ring_index(s.row_data, row), col) ELSE col
        columns == IF has THEN row_data_get(ring_index(s.row_data, row), c0).columns ELSE 1
    IN IF ~w.terms[tid].realized \/ w.terms[tid].invalidated_all THEN w
       ELSE vte_invalidate_cells(w, tid, c0, columns, row, 1)

vte_invalidate_cursor_once(w, tid) ==
    LET cur == TScr(w, tid).cursor_current
    IN vte_invalidate_cell(w, tid, cur.col, cur.row)

(***************************************************************************)
(* The text of the screen: vte_terminal_get_text_range.  A string is the   *)
(* sequence of its bytes, and NULL is kept apart from the empty string.    *)
(* The attributes are one [row, column] for each byte.                     *)
(***************************************************************************)
NullStr == [null |-> TRUE, str |-> <<>>]
Str(s) == [null |-> FALSE, str |-> s]

NewlineByte == 10
SpaceByte == 32

vte_cell_is_between(col, row, acol, arow, bcol, brow, inclusive) ==
    IF arow > brow \/ (arow = brow /\ acol > bcol) THEN FALSE
    ELSE IF row = arow /\ row = brow /\ col = acol /\ col = bcol THEN inclusive
    ELSE IF row > arow /\ row < brow THEN TRUE
    ELSE IF row = arow /\ row = brow
         THEN col >= acol /\ (col < bcol \/ (col = bcol /\ inclusive))
    ELSE IF row = arow /\ col >= acol THEN TRUE
    ELSE row = brow /\ (col < bcol \/ (col = bcol /\ inclusive))

vte_cell_is_selected(t, col, row) ==
    LET ss == t.selection_start
        se == t.selection_end
    IN IF ~t.has_selection THEN FALSE
       ELSE IF ss.row < 0 \/ se.row < 0 THEN FALSE
       ELSE IF t.selection_block_mode /\ (col < ss.col \/ col > se.col) THEN FALSE
       ELSE vte_cell_is_between(col, row, ss.col, ss.row, se.col, se.row, TRUE)

\* the VteSelectionFunc of a call: vte_cell_is_selected, or always_selected
is_selected(t, cells, col, row) ==
    IF cells THEN vte_cell_is_selected(t, col, row) ELSE TRUE

\* vte_g_array_fill: item appended until the array has final_size elements
vte_g_array_fill(array, item, final_size) ==
    array \o [i \in 1..(final_size - Len(array)) |-> item]

vte_line_is_wrappable(t, row) ==
    /\ ring_contains(Scr(t).row_data, row)
    /\ ring_index(Scr(t).row_data, row).soft_wrapped

\* the loop over the cells of one row, from col on; a is the string, the
\* attributes and the locals of the loop
RECURSIVE text_range_cells(_, _, _, _, _, _, _, _)
text_range_cells(t, rd, row, col, end_row, end_col, cells, a) ==
    IF ~HasCell(rd, col) THEN a
    ELSE LET pcell == row_data_get(rd, col)
             take == ~pcell.fragment /\ is_selected(t, cells, col, row)
             empty == pcell.c = <<NulChar>>
             str == IF ~take THEN a.str
                    ELSE IF empty THEN Append(a.str, SpaceByte)
                    ELSE a.str \o utf8_string(pcell.c)
             a1 == [a EXCEPT
                      !.column = col,
                      !.str = str,
                      !.attrs = IF take
                                THEN vte_g_array_fill(@, [row |-> row, column |-> col],
                                                      Len(str))
                                ELSE @,
                      !.last_empty = IF take /\ empty THEN Len(str) ELSE @,
                      !.last_emptycol = IF take /\ empty THEN col ELSE @,
                      !.last_nonempty = IF take /\ ~empty THEN Len(str) ELSE @,
                      !.last_nonemptycol = IF take /\ ~empty THEN col ELSE @]
         IN IF row = end_row /\ col >= end_col THEN a1
            ELSE text_range_cells(t, rd, row, col + 1, end_row, end_col, cells, a1)

\* the trailing spaces of the row trimmed, when no character follows them
text_range_trim(rd, a, include_trailing_spaces) ==
    IF ~include_trailing_spaces /\ a.last_empty > a.last_nonempty
       /\ ~\E col \in (a.last_emptycol + 1)..(row_data_length(rd) - 1) :
              /\ ~row_data_get(rd, col).fragment
              /\ row_data_get(rd, col).c # <<NulChar>>
    THEN [a EXCEPT !.str = SubSeq(@, 1, a.last_nonempty),
                   !.attrs = SubSeq(@, 1, a.last_nonempty),
                   !.column = a.last_nonemptycol]
    ELSE a

\* the newline of the row, and the attributes made as long as the string
text_range_newline(t, row, cells, a) ==
    LET column == Max(t.column_count, a.column + 1)
        str == IF t.selection_block_mode THEN Append(a.str, NewlineByte)
               ELSE IF is_selected(t, cells, t.column_count, row)
                       /\ ~vte_line_is_wrappable(t, row)
                    THEN Append(a.str, NewlineByte)
                    ELSE a.str
    IN [str |-> str,
        attrs |-> vte_g_array_fill(a.attrs, [row |-> row, column |-> column], Len(str))]

text_range_row(t, row, col, end_row, end_col, cells, include_trailing_spaces, r) ==
    LET rd == IF ring_contains(Scr(t).row_data, row)
              THEN ring_index(Scr(t).row_data, row) ELSE EmptyRow
        a0 == [str |-> r.str, attrs |-> r.attrs, column |-> col,
               last_empty |-> Len(r.str), last_nonempty |-> Len(r.str),
               last_emptycol |-> -1, last_nonemptycol |-> -1]
    IN text_range_newline(t, row, cells,
           text_range_trim(rd,
               text_range_cells(t, rd, row, col, end_row, end_col, cells, a0),
               include_trailing_spaces))

RECURSIVE text_range_rows(_, _, _, _, _, _, _, _)
text_range_rows(t, row, col, end_row, end_col, cells, include_trailing_spaces, r) ==
    IF row >= end_row + 1 THEN r
    ELSE text_range_rows(t, row + 1, 0, end_row, end_col, cells,
                         include_trailing_spaces,
                         text_range_row(t, row, col, end_row, end_col, cells,
                                        include_trailing_spaces, r))

\* the string and its attributes; cells is "is_selected is vte_cell_is_selected"
vte_terminal_get_text_range_maybe_wrapped(t, start_row, start_col, end_row, end_col, cells, include_trailing_spaces) ==
    text_range_rows(t, start_row, start_col, end_row, end_col, cells,
                    include_trailing_spaces, [str |-> <<>>, attrs |-> <<>>])

vte_terminal_get_text_range(t, start_row, start_col, end_row, end_col, cells) ==
    vte_terminal_get_text_range_maybe_wrapped(t, start_row, start_col, end_row,
                                              end_col, cells, FALSE)

\* vte_terminal_get_text with always_selected: the visible rows
vte_terminal_get_text(t) ==
    vte_terminal_get_text_range_maybe_wrapped(
        t, Scr(t).scroll_delta, 0, Scr(t).scroll_delta + t.row_count - 1,
        t.column_count - 1, FALSE, FALSE)

vte_invalidate_region(w, tid, scolumn, ecolumn, srow, erow, block) ==
    LET cc == w.terms[tid].column_count
    IN IF block \/ srow = erow
       THEN vte_invalidate_cells(w, tid, scolumn, ecolumn - scolumn + 1,
                                 srow, erow - srow + 1)
       ELSE vte_invalidate_cells(
                vte_invalidate_cells(
                    vte_invalidate_cells(w, tid, scolumn, cc - scolumn, srow, 1),
                    tid, 0, cc, srow + 1, erow - srow - 1),
                tid, 0, ecolumn + 1, erow, 1)

(***************************************************************************)
(* The match table and the lookup of the match under a position.  GRegex   *)
(* belongs to GLib; the model keeps literal patterns, and a search gives   *)
(* the leftmost occurrences, each found from the end of the one before.    *)
(***************************************************************************)
MinOf(S) == CHOOSE x \in S : \A y \in S : x <= y
MaxOf(S) == CHOOSE x \in S : \A y \in S : x >= y

G_MININT == -G_MAXINT - 1

\* g_regex_match_full and g_match_info_next: the [rm_so, rm_eo) of the
\* matches of the line, which are searched from the offset from on
RECURSIVE g_regex_match_full(_, _, _)
g_regex_match_full(regex, line, from) ==
    LET hits == { so \in from..(Len(line) - Len(regex)) :
                    SubSeq(line, so + 1, so + Len(regex)) = regex }
    IN IF hits = {} THEN <<>>
       ELSE <<[rm_so |-> MinOf(hits), rm_eo |-> MinOf(hits) + Len(regex)]>>
            \o g_regex_match_full(regex, line, MinOf(hits) + Len(regex))

\* regex_match_clear: the slot becomes a hole
regex_match_clear(regex) == [regex |-> <<>>, tag |-> -1]

vte_terminal_match_hilite_clear(w, tid) ==
    LET t == w.terms[tid]
    IN [(IF t.match_tag # -1
         THEN vte_invalidate_region(w, tid, t.match_start.col, t.match_end.col,
                                    t.match_start.row, t.match_end.row, FALSE)
         ELSE w)
        EXCEPT !.terms[tid].match_start = [row |-> -1, col |-> -1],
               !.terms[tid].match_end = [row |-> -2, col |-> -2],
               !.terms[tid].match_tag = -1,
               !.terms[tid].show_match = FALSE,
               !.terms[tid].match = NullStr]

vte_terminal_match_contents_clear(w, tid) ==
    vte_terminal_match_hilite_clear(
        [w EXCEPT !.terms[tid].match_contents = NullStr,
                  !.terms[tid].match_attributes = <<>>], tid)

vte_terminal_match_contents_refresh(w, tid) ==
    The({ [w1 EXCEPT !.terms[tid].match_contents = Str(r.str),
                     !.terms[tid].match_attributes = r.attrs]
          : r \in {vte_terminal_get_text(w.terms[tid])},
            w1 \in {vte_terminal_match_contents_clear(w, tid)} })

vte_terminal_match_remove(w, tid, tag) ==
    LET regs == w.terms[tid].match_regexes
    IN IF tag >= 0 /\ Len(regs) > tag
       THEN IF regs[tag + 1].tag < 0 THEN w
            ELSE vte_terminal_match_hilite_clear(
                     [w EXCEPT !.terms[tid].match_regexes[tag + 1] =
                                   regex_match_clear(@)], tid)
       ELSE vte_terminal_match_hilite_clear(w, tid)

\* vte_terminal_match_add_gregex without the search for a hole
match_add_gregex_appended(w, tid, regex) ==
    [w EXCEPT !.terms[tid].match_regexes =
           Append(@, [regex |-> regex, tag |-> Len(@)])]

vte_terminal_match_add_gregex(w, tid, regex) ==
    LET regs == w.terms[tid].match_regexes
        holes == { i \in 0..(Len(regs) - 1) : regs[i + 1].tag = -1 }
        ret == IF holes = {} THEN Len(regs) ELSE MinOf(holes)
        new_regex_match == [regex |-> regex, tag |-> ret]
    IN [w EXCEPT !.terms[tid].match_regexes =
           IF ret < Len(regs) THEN [@ EXCEPT ![ret + 1] = new_regex_match]
           ELSE Append(@, new_regex_match)]

\* the byte at an offset of a string; the byte after the last is the NUL
ByteAt(s, i) == IF i >= 0 /\ i < Len(s) THEN s[i + 1] ELSE 0
IsEol(b) == b = NewlineByte \/ b = 0
g_ascii_isspace(b) == b \in {9, 10, 12, 13, 32}

\* the matches of one regex: the first that holds ko ends the search, the
\* others narrow the blank around ko
RECURSIVE match_check_matches(_, _, _)
match_check_matches(ms, ko, b) ==
    IF ms = <<>> THEN b
    ELSE LET m == Head(ms)
             sblank == IF ko > m.rm_eo THEN m.rm_eo ELSE G_MININT
             eblank == IF ko < m.rm_so THEN m.rm_so ELSE G_MAXINT
         IN IF ko >= m.rm_so /\ ko < m.rm_eo
            THEN [b EXCEPT !.found = TRUE, !.rm_so = m.rm_so, !.rm_eo = m.rm_eo]
            ELSE match_check_matches(Tail(ms), ko,
                     [b EXCEPT !.start_blank = Max(@, sblank),
                               !.end_blank = Min(@, eblank)])

\* the loop over the regexes from index i on; runs counts the searches
RECURSIVE match_check_regexes(_, _, _, _, _)
match_check_regexes(regs, i, line, ko, b) ==
    IF i >= Len(regs) THEN b
    ELSE IF regs[i + 1].tag < 0 THEN match_check_regexes(regs, i + 1, line, ko, b)
    ELSE The({ IF b1.found THEN [b1 EXCEPT !.tag = regs[i + 1].tag]
               ELSE match_check_regexes(regs, i + 1, line, ko, b1)
               : b1 \in {match_check_matches(
                             g_regex_match_full(regs[i + 1].regex, line, 0), ko,
                             [b EXCEPT !.runs = @ + 1])} })

NoMatch == [result |-> NullStr, tag |-> -1, start |-> 0, end |-> 0, runs |-> 0]

\* the pointer is on the byte at offset: the line around it is cut out and
\* searched
match_check_line(t, row, offset) ==
    LET s == t.match_contents.str
        attrs == t.match_attributes
        len == Len(attrs)
        eattr0 == MinOf({ o \in (offset + 1)..(len - 1) : row < attrs[o + 1].row }
                        \cup {len})
        eattr1 == MaxOf({ e \in 0..eattr0 : ~IsEol(ByteAt(s, e)) })
        eattr == MinOf({ e \in eattr1..Len(s) : IsEol(ByteAt(s, e)) })
        sattr0 == IF row = 0 THEN 0
                  ELSE MaxOf({ o \in 1..offset : row > attrs[o + 1].row } \cup {0})
        sattr1 == MaxOf({ x \in 1..sattr0 : IsEol(ByteAt(s, x)) } \cup {0})
        sattr == MinOf({ x \in sattr1..Len(s) : ~IsEol(ByteAt(s, x)) })
        line == SubSeq(s, sattr + 1, eattr)
    IN IF eattr <= sattr THEN NoMatch
       ELSE IF eattr <= offset \/ sattr > offset THEN NoMatch
       ELSE The({ IF b.found
                  THEN [result |-> Str(SubSeq(line, b.rm_so + 1, b.rm_eo)),
                        tag |-> b.tag, start |-> sattr + b.rm_so,
                        end |-> sattr + b.rm_eo - 1, runs |-> b.runs]
                  ELSE [result |-> NullStr, tag |-> -1,
                        start |-> sattr + b.start_blank,
                        end |-> sattr + b.end_blank, runs |-> b.runs]
                  : b \in {match_check_regexes(t.match_regexes, 0, line,
                               offset - sattr,
                               [found |-> FALSE, rm_so |-> 0, rm_eo |-> 0, tag |-> -1,
                                start_blank |-> 0, end_blank |-> eattr - sattr,
                                runs |-> 0])} })

\* the result, the tag, the range [start, end] in match_contents and the
\* number of searches made
vte_terminal_match_check_internal_gregex(t, column, row) ==
    LET s == t.match_contents.str
        attrs == t.match_attributes
        hits == { o \in 0..(Len(attrs) - 1) :
                    /\ row = attrs[o + 1].row
                    /\ column = attrs[o + 1].column
                    /\ ByteAt(s, o) # SpaceByte }
    IN IF hits = {} THEN NoMatch
       ELSE IF g_ascii_isspace(ByteAt(s, MaxOf(hits))) \/ ByteAt(s, MaxOf(hits)) = 0
            THEN NoMatch
       ELSE match_check_line(t, row, MaxOf(hits))

\* the world with the projection built if it was not, and the lookup
vte_terminal_match_check_internal(w, tid, column, row) ==
    The({ [w |-> w1,
           r |-> vte_terminal_match_check_internal_gregex(w1.terms[tid], column, row)]
          : w1 \in {IF w.terms[tid].match_contents.null
                    THEN vte_terminal_match_contents_refresh(w, tid) ELSE w} })

rowcol_inside_match(t, row, col) ==
    IF t.match_start.row = t.match_end.row
    THEN row = t.match_start.row /\ col >= t.match_start.col /\ col <= t.match_end.col
    ELSE IF row < t.match_start.row \/ row > t.match_end.row THEN FALSE
    ELSE IF row = t.match_start.row THEN col >= t.match_start.col
    ELSE IF row = t.match_end.row THEN col <= t.match_end.col
    ELSE TRUE

\* vte_terminal_match_check without the question to the last match
match_check_always_searched(w, tid, column, row) ==
    The({ [w |-> c.w, ret |-> c.r.result, tag |-> c.r.tag, runs |-> c.r.runs]
          : c \in {vte_terminal_match_check_internal(
                       w, tid, column, row + TScr(w, tid).scroll_delta)} })

\* vte_terminal_match_check: the world after the call, the string and the
\* tag returned, and the searches made for them
vte_terminal_match_check(w, tid, column, row) ==
    LET t == w.terms[tid]
        delta == Scr(t).scroll_delta
    IN IF rowcol_inside_match(t, row + delta, column)
       THEN [w |-> w, ret |-> t.match, tag |-> t.match_tag, runs |-> 0]
       ELSE The({ [w |-> c.w, ret |-> c.r.result, tag |-> c.r.tag, runs |-> c.r.runs]
                  : c \in {vte_terminal_match_check_internal(w, tid, column,
                                                             row + delta)} })

\* char_width and char_height are 1: a pixel is a cell
vte_terminal_match_hilite_update(w, tid, x, y) ==
    The({ LET t == c.w.terms[tid]
              len == Len(t.match_attributes)
              both == c.r.start < len /\ c.r.end < len
              w1 == IF t.show_match
                    THEN vte_invalidate_region(c.w, tid, t.match_start.col,
                             t.match_end.col, t.match_start.row, t.match_end.row,
                             FALSE)
                    ELSE c.w
              match_start == IF both
                             THEN [row |-> t.match_attributes[c.r.start + 1].row,
                                   col |-> t.match_attributes[c.r.start + 1].column]
                             ELSE [row |-> -1, col |-> -1]
              match_end == IF both
                           THEN [row |-> t.match_attributes[c.r.end + 1].row,
                                 col |-> t.match_attributes[c.r.end + 1].column]
                           ELSE [row |-> -2, col |-> -2]
              w2 == [w1 EXCEPT !.terms[tid].match_tag = c.r.tag,
                               !.terms[tid].match_start = match_start,
                               !.terms[tid].match_end = match_end,
                               !.terms[tid].match = c.r.result,
                               !.terms[tid].show_match = ~c.r.result.null]
          IN IF ~both /\ ~c.r.result.null THEN Crash(c.w, tid)
             ELSE IF c.r.result.null THEN w2
             ELSE vte_invalidate_region(w2, tid, match_start.col, match_end.col,
                                        match_start.row, match_end.row, FALSE)
          : c \in {vte_terminal_match_check_internal(
                       w, tid, x, y + TScr(w, tid).scroll_delta)} })

cursor_inside_match(t, x, y) ==
    rowcol_inside_match(t, y + Scr(t).scroll_delta, x)

vte_terminal_match_hilite(w, tid, x, y) ==
    LET t == w.terms[tid]
        shown == [w EXCEPT !.terms[tid].show_match = ~t.match.null]
    IN IF x < 0 \/ x > t.allocation.width \/ y < 0 \/ y > t.allocation.height THEN w
       ELSE IF x = t.mouse_last_x /\ y = t.mouse_last_y THEN shown
       ELSE IF cursor_inside_match(t, x, y) THEN shown
       ELSE vte_terminal_match_hilite_update(w, tid, x, y)

vte_terminal_set_pointer_visible(w, tid, visible) ==
    [w EXCEPT !.terms[tid].mouse_cursor_visible = visible]

\* a motion event with no button held and no selection being made
vte_terminal_motion_notify(w, tid, x, y) ==
    [vte_terminal_set_pointer_visible(vte_terminal_match_hilite(w, tid, x, y),
                                      tid, TRUE)
        EXCEPT !.terms[tid].mouse_last_x = x, !.terms[tid].mouse_last_y = y]

\* vte_terminal_emit_contents_changed with the projection kept
emit_contents_changed_kept(w, tid) ==
    LET t == w.terms[tid]
    IN IF t.contents_changed_pending
       THEN [w EXCEPT !.terms[tid].contents_changed_pending = FALSE,
                      !.terms[tid].log_contents_changed =
                          IF t.trace_signals THEN @ + 1 ELSE @]
       ELSE w

\* log_contents_changed counts the signals emitted, when they are traced
vte_terminal_emit_contents_changed(w, tid) ==
    LET t == w.terms[tid]
    IN IF t.contents_changed_pending
       THEN The({ [(IF t.mouse_cursor_visible
                    THEN vte_terminal_match_hilite_update(w1, tid, t.mouse_last_x,
                                                          t.mouse_last_y)
                    ELSE w1)
                   EXCEPT !.terms[tid].contents_changed_pending = FALSE,
                          !.terms[tid].log_contents_changed =
                              IF t.trace_signals THEN @ + 1 ELSE @]
                  : w1 \in {vte_terminal_match_contents_clear(w, tid)} })
       ELSE w

(***************************************************************************)
(* The selection.                                                          *)
(***************************************************************************)
\* the text of the selection, as vte_terminal_copy and the processing of
\* the input read it
selection_text(t) ==
    vte_terminal_get_text_range(t, t.selection_start.row, 0, t.selection_end.row,
                                t.column_count, TRUE).str

vte_terminal_deselect_all(w, tid) ==
    LET t == w.terms[tid]
        sx == t.selection_start.col
        sy == t.selection_start.row
        ex == t.selection_end.col
        ey == t.selection_end.row
    IN IF t.has_selection
       THEN vte_invalidate_region([w EXCEPT !.terms[tid].has_selection = FALSE], tid,
                                  Min(sx, ex), Max(sx, ex), Min(sy, ey), Max(sy, ey),
                                  FALSE)
       ELSE w

vte_terminal_copy(w, tid) ==
    [w EXCEPT !.terms[tid].selection = Str(selection_text(w.terms[tid])),
              !.terms[tid].has_selection = TRUE]

vte_terminal_select_all(w, tid) ==
    The({ vte_invalidate_all(
              vte_terminal_copy(
                  [w1 EXCEPT !.terms[tid].has_selection = TRUE,
                             !.terms[tid].selection_start =
                                 [row |-> ring_delta(TScr(w1, tid).row_data), col |-> 0],
                             !.terms[tid].selection_end =
                                 [row |-> ring_next(TScr(w1, tid).row_data), col |-> -1]],
                  tid), tid)
          : w1 \in {vte_terminal_deselect_all(w, tid)} })

vte_terminal_select_none(w, tid) == vte_terminal_deselect_all(w, tid)

(***************************************************************************)
(* Word characters.  word_chars is the array of VteWordCharRange; the      *)
(* Unicode properties of GLib are given for the code points above.         *)
(***************************************************************************)
HyphenChar == 45

g_unichar_isgraph(c) == c \notin {NulChar, TabChar, NewlineByte, SpaceByte}
g_unichar_ispunct(c) == c = HyphenChar
g_unichar_isspace(c) == c \in {TabChar, NewlineByte, SpaceByte}

\* _vte_unistr_get_base: the code point the marks were added to
unistr_get_base(s) == Head(s)

\* the loop of vte_terminal_set_word_chars over wbuf, which ends with a 0;
\* the bytes of spec are below 0x80, one gunichar each
RECURSIVE set_word_chars_loop(_, _, _)
set_word_chars_loop(wbuf, i, ranges) ==
    LET at(k) == IF k < Len(wbuf) THEN wbuf[k + 1] ELSE 0
    IN IF i >= Len(wbuf) THEN ranges
       ELSE IF at(i) = HyphenChar
       THEN set_word_chars_loop(wbuf, i + 1,
                Append(ranges, [start |-> at(i), end |-> at(i)]))
       ELSE IF at(i + 1) # HyphenChar
       THEN set_word_chars_loop(wbuf, i + 1,
                Append(ranges, [start |-> at(i), end |-> at(i)]))
       ELSE IF at(i + 2) # HyphenChar /\ at(i + 2) # 0
       THEN set_word_chars_loop(wbuf, i + 3,
                Append(ranges, [start |-> at(i), end |-> at(i + 2)]))
       ELSE set_word_chars_loop(wbuf, i + 1, ranges)

vte_terminal_set_word_chars(w, tid, spec) ==
    [w EXCEPT !.terms[tid].word_chars =
        [null |-> FALSE,
         ranges |-> IF spec.null \/ spec.str = <<>> THEN <<>>
                    ELSE set_word_chars_loop(spec.str, 0, <<>>)]]

vte_terminal_is_word_char(t, c) ==
    \/ /\ ~t.word_chars.null
       /\ \E i \in 1..Len(t.word_chars.ranges) :
              c >= t.word_chars.ranges[i].start /\ c <= t.word_chars.ranges[i].end
    \/ /\ c >= 128 \/ t.word_chars.null \/ Len(t.word_chars.ranges) = 0
       /\ g_unichar_isgraph(c)
       /\ ~g_unichar_ispunct(c)
       /\ ~g_unichar_isspace(c)
       /\ c # 0

\* vte_screen_find_charcell: NULL is [null |-> TRUE]
vte_screen_find_charcell(screen, col, row) ==
    IF ring_contains(screen.row_data, row)
       /\ HasCell(ring_index(screen.row_data, row), col)
    THEN [null |-> FALSE, cell |-> row_data_get(ring_index(screen.row_data, row), col)]
    ELSE [null |-> TRUE, cell |-> basic_cell]

\* vte_same_class with non-word characters grouped together
same_class_grouped(t, acol, arow, bcol, brow) ==
    LET a == vte_screen_find_charcell(Scr(t), acol, arow)
        b == vte_screen_find_charcell(Scr(t), bcol, brow)
    IN /\ ~a.null /\ a.cell.c # <<NulChar>>
       /\ ~b.null /\ b.cell.c # <<NulChar>>
       /\ vte_terminal_is_word_char(t, unistr_get_base(a.cell.c))
              = vte_terminal_is_word_char(t, unistr_get_base(b.cell.c))

vte_same_class(t, acol, arow, bcol, brow) ==
    LET a == vte_screen_find_charcell(Scr(t), acol, arow)
        b == vte_screen_find_charcell(Scr(t), bcol, brow)
    IN IF ~a.null /\ a.cell.c # <<NulChar>>
       THEN LET word_char == vte_terminal_is_word_char(t, unistr_get_base(a.cell.c))
            IN IF ~word_char THEN FALSE
               ELSE IF b.null \/ b.cell.c = <<NulChar>> THEN FALSE
               ELSE IF word_char # vte_terminal_is_word_char(t, unistr_get_base(b.cell.c))
               THEN FALSE
               ELSE TRUE
       ELSE FALSE

\* process_incoming_deselect without the comparison of the two texts
process_incoming_deselect_any(w, tid) == vte_terminal_deselect_all(w, tid)

\* "Deselect the current selection if its contents are changed"
process_incoming_deselect(w, tid) ==
    LET t == w.terms[tid]
    IN IF t.has_selection /\ (t.selection.null \/ selection_text(t) # t.selection.str)
       THEN vte_terminal_deselect_all(w, tid)
       ELSE w

\* of the signals the adjustment's, the text-inserted flag and
\* contents-changed are kept
vte_terminal_emit_pending_signals(w, tid) ==
    vte_terminal_emit_contents_changed(
        [vte_terminal_emit_adjustment_changed(w, tid)
            EXCEPT !.terms[tid].text_inserted_flag = FALSE], tid)

\* the matcher loop over the pending code points of w1
process_incoming_match(w1, tid, delta) ==
    process_incoming_loop(
        [w |-> w1, wbuf |-> w1.terms[tid].pending, start |-> 0,
         leftovers |-> FALSE, modified |-> FALSE,
         invalidated_text |-> FALSE, bbox |-> EmptyBBox], tid, delta)

\* "if (modified)": keep the cursor on the screen, scroll to the bottom,
\* drop a selection whose text has changed, queue contents-changed
process_incoming_modified(u, tid, bottom) ==
    vte_terminal_queue_contents_changed(
        process_incoming_deselect(
            IF u.terms[tid].scroll_on_output \/ bottom
            THEN vte_terminal_maybe_scroll_to_bottom(u, tid)
            ELSE u,
            tid),
        tid)

\* The blink timer of the cursor: cursor_blink_tag is TRUE when the source
\* of vte_invalidate_cursor_periodic is scheduled.
add_cursor_timeout(w, tid) ==
    IF w.terms[tid].cursor_blink_tag THEN w
    ELSE [w EXCEPT !.terms[tid].cursor_blink_time = 0,
                   !.terms[tid].cursor_blink_tag = TRUE]

remove_cursor_timeout(w, tid) ==
    [w EXCEPT !.terms[tid].cursor_blink_tag = FALSE]

vte_check_cursor_blink(w, tid) ==
    LET t == w.terms[tid]
    IN IF t.has_focus /\ t.cursor_blinks /\ t.cursor_visible
       THEN add_cursor_timeout(w, tid)
       ELSE remove_cursor_timeout(w, tid)

\* the text area of the pass and the old and new cursor cells invalidated
process_incoming_invalidate(w4, tid, L, delta, cursor) ==
    The({ IF cursor # TScr(w5, tid).cursor_current
          THEN vte_check_cursor_blink(
                   vte_invalidate_cursor_once(
                       vte_invalidate_cell(w5, tid, cursor.col, cursor.row), tid),
                   tid)
          ELSE w5
          : w5 \in {IF L.invalidated_text
                    THEN InvalidateBBox(w4, tid, L.bbox, delta) ELSE w4} })

\* what follows the matcher loop when the pending buffer is emptied
\* whatever start is
process_incoming_end_pending_dropped(L, tid, delta, bottom, cursor) ==
    LET w2 == [L.w EXCEPT !.terms[tid].pending = <<>>]
    IN IF L.w.terms[tid].crashed THEN L.w
       ELSE process_incoming_invalidate(
                vte_terminal_emit_pending_signals(
                    IF L.modified
                    THEN process_incoming_modified(
                             vte_terminal_update_insert_delta(w2, tid), tid, bottom)
                    ELSE w2,
                    tid),
                tid, L, delta, cursor)

\* what follows the matcher loop, which ended in L
process_incoming_end(L, tid, delta, bottom, cursor) ==
    LET w2 == [L.w EXCEPT !.terms[tid].pending =
                  IF L.start < Len(L.wbuf)
                  THEN SubSeq(L.wbuf, L.start + 1, Len(L.wbuf)) ELSE <<>>]
    IN IF L.w.terms[tid].crashed THEN L.w
       ELSE process_incoming_invalidate(
                vte_terminal_emit_pending_signals(
                    IF L.modified
                    THEN process_incoming_modified(
                             vte_terminal_update_insert_delta(w2, tid), tid, bottom)
                    ELSE w2,
                    tid),
                tid, L, delta, cursor)

vte_terminal_process_incoming(w, tid) ==
    LET s0 == TScr(w, tid)
        delta == s0.scroll_delta
        bottom == s0.insert_delta = delta
        cursor == s0.cursor_current
    IN process_incoming_end(
           process_incoming_match(process_incoming_decode(w, tid), tid, delta),
           tid, delta, bottom, cursor)

(***************************************************************************)
(* The pty.  pty is TRUE when pvt->pty is the pty object and FALSE when it *)
(* is NULL.  Of the child's side: pty_data is what the child has written   *)
(* and read() has not returned yet, pty_read is what read() gives when     *)
(* that is exhausted, pty_written is what write() has passed on.           *)
(***************************************************************************)
CarriageReturnByte == 13

vte_terminal_disconnect_pty_read(w, tid) ==
    [w EXCEPT !.terms[tid].pty_input_source = FALSE]

vte_terminal_disconnect_pty_write(w, tid) ==
    [w EXCEPT !.terms[tid].pty_output_source = FALSE]

\* vte_terminal_io_write; count is what write() returns, -1 for an error.
\* Gives the world and the return value leave_open.
vte_terminal_io_write(w, tid, count) ==
    LET out == w.terms[tid].outgoing
        n == IF count = -1 THEN 0 ELSE Min(count, Len(out))
        w1 == [w EXCEPT !.terms[tid].outgoing = SubSeq(out, n + 1, Len(out)),
                        !.terms[tid].pty_written = @ \o SubSeq(out, 1, n)]
    IN [w |-> w1, leave_open |-> Len(w1.terms[tid].outgoing) # 0]

\* count is what the write() of the first attempt returns
vte_terminal_connect_pty_write(w, tid, count) ==
    LET w1 == [w EXCEPT !.terms[tid].pty_channel = TRUE]
    IN IF ~w1.terms[tid].pty_output_source
       THEN The({ IF r.leave_open
                  THEN [r.w EXCEPT !.terms[tid].pty_output_source = TRUE]
                  ELSE r.w
                  : r \in {vte_terminal_io_write(w1, tid, count)} })
       ELSE w1

vte_terminal_emit_commit(w, tid, text) ==
    IF w.terms[tid].trace_signals
    THEN [w EXCEPT !.terms[tid].log_commit = Append(@, text)]
    ELSE w

\* _vte_conv from UTF-8 to UTF-8 (vteconv.c): the bytes are copied when
\* they are whole UTF-8 characters, and the conversion fails otherwise
vte_conv_utf8(data) ==
    [ok |-> utf8_string(iso2022_process(data).chars) = data, out |-> data]

\* the copy of vte_terminal_send with a line feed after each carriage return
RECURSIVE send_cooked(_)
send_cooked(bytes) ==
    IF bytes = <<>> THEN <<>>
    ELSE (IF Head(bytes) = CarriageReturnByte
          THEN <<CarriageReturnByte, NewlineByte>> ELSE <<Head(bytes)>>)
         \o send_cooked(Tail(bytes))

\* vte_terminal_send that queues the bytes whether there is a pty or not
send_without_pty_test(w, tid, data, newline_stuff, count) ==
    LET conv == vte_conv_utf8(data)
        cooked == IF newline_stuff THEN send_cooked(conv.out) ELSE conv.out
        w1 == IF Len(cooked) > 0 THEN vte_terminal_emit_commit(w, tid, cooked) ELSE w
    IN IF ~conv.ok
       THEN [w EXCEPT !.terms[tid].log_warnings = @ \cup {"convert"}]
       ELSE IF Len(cooked) > 0
       THEN vte_terminal_connect_pty_write(
                [w1 EXCEPT !.terms[tid].outgoing = @ \o cooked], tid, count)
       ELSE w1

\* vte_terminal_send for "UTF-8", the encoding of the terminal being UTF-8,
\* without local echo; count is what the write() of
\* vte_terminal_connect_pty_write returns
vte_terminal_send(w, tid, data, newline_stuff, count) ==
    LET conv == vte_conv_utf8(data)
        cooked == IF newline_stuff THEN send_cooked(conv.out) ELSE conv.out
        w1 == IF Len(cooked) > 0 THEN vte_terminal_emit_commit(w, tid, cooked) ELSE w
    IN IF ~conv.ok
       THEN [w EXCEPT !.terms[tid].log_warnings = @ \cup {"convert"}]
       ELSE IF Len(cooked) > 0 /\ w.terms[tid].pty
       THEN vte_terminal_connect_pty_write(
                [w1 EXCEPT !.terms[tid].outgoing = @ \o cooked], tid, count)
       ELSE w1

\* vte_terminal_feed_child with the length of text given
vte_terminal_feed_child(w, tid, text, count) ==
    IF Len(text) > 0 THEN vte_terminal_send(w, tid, text, FALSE, count) ELSE w

\* the pty, when there is one, takes the size and gives it back unchanged
vte_terminal_set_size(w, tid, columns, rows) ==
    LET t == w.terms[tid]
        old_rows == t.row_count
        old_columns == t.column_count
        w1 == [w EXCEPT !.terms[tid].row_count = rows,
                        !.terms[tid].column_count = columns]
        s == TScr(w1, tid)
        visible_rows == Min(old_rows, ring_length(s.row_data))
    IN IF old_rows # rows \/ old_columns # columns
       THEN IF rows < visible_rows
            THEN LET delta == visible_rows - rows
                 IN vte_terminal_queue_adjustment_value_changed(
                        SetS(w1, tid, [s EXCEPT !.insert_delta = @ + delta]),
                        tid, s.scroll_delta + delta)
            ELSE w1
       ELSE w1

\* the first half of vte_terminal_set_pty: the pty in use is let go
set_pty_unset(w, tid) ==
    LET w1 == [vte_terminal_disconnect_pty_write(
                   vte_terminal_disconnect_pty_read(w, tid), tid)
                  EXCEPT !.terms[tid].pty_channel = FALSE]
        w2 == IF w.terms[tid].incoming # <<>>
              THEN [incoming_chunks_release(vte_terminal_process_incoming(w1, tid), tid)
                       EXCEPT !.terms[tid].input_bytes = 0]
              ELSE w1
    IN [vte_terminal_stop_processing(
            [w2 EXCEPT !.terms[tid].pending = <<>>], tid)
           EXCEPT !.terms[tid].outgoing = <<>>,
                  !.terms[tid].pty = FALSE,
                  !.terms[tid].pty_data = <<>>,
                  !.terms[tid].pty_read = "EAGAIN"]

\* the second half: the new pty is taken
set_pty_set(w, tid) ==
    vte_terminal_connect_pty_read(
        vte_terminal_set_size(
            [w EXCEPT !.terms[tid].pty = TRUE, !.terms[tid].pty_channel = TRUE],
            tid, w.terms[tid].column_count, w.terms[tid].row_count), tid)

\* vte_terminal_set_pty; the argument pty is TRUE for the pty object and
\* FALSE for NULL
vte_terminal_set_pty(w, tid, pty) ==
    IF w.terms[tid].pty = pty THEN w
    ELSE The({ IF pty THEN set_pty_set(w1, tid) ELSE w1
               : w1 \in {IF w.terms[tid].pty THEN set_pty_unset(w, tid) ELSE w} })

\* the idle source that emits "eof"
vte_terminal_queue_eof(w, tid) ==
    [w EXCEPT !.terms[tid].eof_queued = TRUE]

vte_terminal_emit_eof(w, tid) ==
    [w EXCEPT !.terms[tid].eof_queued = FALSE,
              !.terms[tid].log_eof = TRUE]

vte_terminal_eof(w, tid) ==
    vte_terminal_queue_eof(vte_terminal_set_pty(w, tid, FALSE), tid)

\* the end of vte_terminal_io_read: the errno of the read() that failed
\* (0 when none did) and the read() that returned 0
io_read_error(b, tid, err, eof0) ==
    LET w1 == IF err \in {"0", "EIO", "EAGAIN", "EBUSY"} THEN b.w
              ELSE [b.w EXCEPT !.terms[tid].log_warnings = @ \cup {err}]
        eof == eof0 \/ err = "EIO"
    IN IF eof THEN [w |-> vte_terminal_eof(w1, tid), again |-> FALSE]
       ELSE [w |-> w1, again |-> b.again]

\* returns the world and the return value "again"
vte_terminal_io_read(w, tid) ==
    The({ LET drop == r.chunklen = 0 /\ r.own
              chunks == IF drop THEN Tail(r.chunks) ELSE r.chunks
              w1 == IF drop THEN release_chunk(r.w) ELSE r.w
              failed == r.short /\ w.terms[tid].pty_read # "EOF"
          IN The({ io_read_error(
                       [w |-> [(IF ~vte_terminal_is_processing(w2, tid)
                                THEN vte_terminal_add_process_timeout(w2, tid) ELSE w2)
                                  EXCEPT !.terms[tid].pty_input_active = (r.len # 0),
                                         !.terms[tid].input_bytes = r.bytes],
                        again |-> r.bytes < io_read_max_bytes(w, tid)],
                       tid,
                       IF failed THEN w.terms[tid].pty_read ELSE "0",
                       r.short /\ w.terms[tid].pty_read = "EOF")
                   : w2 \in {IF chunks # <<>>
                             THEN vte_terminal_feed_chunks(w1, tid, chunks)
                             ELSE w1} })
          : r \in {io_read_loop(w, tid, <<>>, FALSE, w.terms[tid].input_bytes, TRUE)} })

(***************************************************************************)
(* The events of the widget: focus, keys, the pointer's button, the blink  *)
(* timer of the cursor and the settings of the desktop.  char_width and    *)
(* char_height are 1 and there is no padding: a pixel is a cell.           *)
(***************************************************************************)
\* vte_invalidate_cursor_periodic, the callback of the blink timer
vte_invalidate_cursor_periodic(w, tid) ==
    LET t == w.terms[tid]
        state == ~t.cursor_blink_state
        time == t.cursor_blink_time + t.cursor_blink_cycle
        w1 == [w EXCEPT !.terms[tid].cursor_blink_state = state,
                        !.terms[tid].cursor_blink_time = time]
        w2 == IF t.cursor_blinks THEN vte_invalidate_cursor_once(w1, tid) ELSE w1
    IN [w2 EXCEPT !.terms[tid].cursor_blink_tag =
           ~(time \div 1000 >= t.cursor_blink_timeout /\ state)]

vte_terminal_set_cursor_blinks_internal(w, tid, blink) ==
    IF w.terms[tid].cursor_blinks = blink THEN w
    ELSE vte_check_cursor_blink([w EXCEPT !.terms[tid].cursor_blinks = blink], tid)

\* the cursor_blink_mode is VTE_CURSOR_BLINK_SYSTEM, as vte_terminal_init
\* leaves it
vte_terminal_sync_settings(w, tid, blink, blink_time, blink_timeout) ==
    vte_terminal_set_cursor_blinks_internal(
        [w EXCEPT !.terms[tid].cursor_blink_cycle = blink_time \div 2,
                  !.terms[tid].cursor_blink_timeout = blink_timeout],
        tid, blink)

vte_terminal_match_hilite_hide(w, tid) ==
    LET t == w.terms[tid]
    IN IF ~t.match.null /\ t.show_match
       THEN [vte_invalidate_region(w, tid, t.match_start.col, t.match_end.col,
                                   t.match_start.row, t.match_end.row, FALSE)
                EXCEPT !.terms[tid].show_match = FALSE]
       ELSE w

\* a single click of button 1 at the cell (x, y) with no modifier held and
\* no mouse tracking: the selection of characters starts
vte_terminal_start_selection(w, tid, x, y) ==
    vte_terminal_disconnect_pty_read(
        [w EXCEPT !.terms[tid].selection_block_mode = FALSE,
                  !.terms[tid].has_selection = FALSE,
                  !.terms[tid].selection_last =
                      [x |-> x, y |-> y + TScr(w, tid).scroll_delta],
                  !.terms[tid].selection_origin =
                      [x |-> x, y |-> y + TScr(w, tid).scroll_delta],
                  !.terms[tid].selecting_restart = TRUE,
                  !.terms[tid].selecting_had_delta = FALSE,
                  !.terms[tid].selecting = TRUE],
        tid)

\* gives the world and the return value
vte_terminal_maybe_end_selection(w, tid) ==
    LET t == w.terms[tid]
        w1 == IF t.has_selection /\ ~t.selecting_restart /\ t.selecting_had_delta
              THEN vte_terminal_copy(w, tid)
              ELSE w
    IN IF t.selecting
       THEN [w |-> vte_terminal_connect_pty_read(
                       [w1 EXCEPT !.terms[tid].selecting = FALSE], tid),
             ret |-> TRUE]
       ELSE [w |-> w, ret |-> FALSE]

vte_terminal_button_press(w, tid, x, y) ==
    [vte_terminal_start_selection(
         vte_terminal_deselect_all(
             vte_terminal_set_pointer_visible(
                 vte_terminal_match_hilite(w, tid, x, y), tid, TRUE),
             tid),
         tid, x, y)
        EXCEPT !.terms[tid].mouse_last_button = 1,
               !.terms[tid].mouse_last_x = x, !.terms[tid].mouse_last_y = y]

\* the release of button 1
vte_terminal_button_release(w, tid, x, y) ==
    [vte_terminal_maybe_end_selection(
         vte_terminal_set_pointer_visible(
             vte_terminal_match_hilite(w, tid, x, y), tid, TRUE),
         tid).w
        EXCEPT !.terms[tid].mouse_last_button = 0,
               !.terms[tid].mouse_last_x = x, !.terms[tid].mouse_last_y = y]

vte_terminal_focus_in(w, tid) ==
    IF w.terms[tid].realized
    THEN vte_terminal_set_pointer_visible(
             vte_invalidate_cursor_once(
                 vte_check_cursor_blink(
                     [w EXCEPT !.terms[tid].cursor_blink_state = TRUE,
                               !.terms[tid].has_focus = TRUE], tid),
                 tid),
             tid, TRUE)
    ELSE w

vte_terminal_focus_out(w, tid) ==
    vte_check_cursor_blink(
        [(IF w.terms[tid].realized
          THEN [vte_terminal_match_hilite_hide(
                    vte_invalidate_cursor_once(
                        vte_terminal_maybe_end_selection(w, tid).w, tid),
                    tid)
                   EXCEPT !.terms[tid].mouse_cursor_visible = FALSE]
          ELSE w)
            EXCEPT !.terms[tid].has_focus = FALSE],
        tid)

\* sendrecv_mode is TRUE and linefeed_mode FALSE, as vte_terminal_init leaves
\* them: no local echo and no newline conversion
vte_terminal_feed_child_using_modes(w, tid, data, count) ==
    IF Len(data) > 0 THEN vte_terminal_send(w, tid, data, FALSE, count) ELSE w

vte_terminal_im_commit(w, tid, text, count) ==
    The({ IF w1.terms[tid].scroll_on_keystroke
          THEN vte_terminal_maybe_scroll_to_bottom(w1, tid)
          ELSE w1
          : w1 \in {vte_terminal_feed_child_using_modes(w, tid, text, count)} })

\* "if (terminal->pvt->cursor_blink_tag != 0)" of vte_terminal_key_press
key_press_blink(w, tid) ==
    IF w.terms[tid].cursor_blink_tag
    THEN add_cursor_timeout(
             [remove_cursor_timeout(w, tid)
                 EXCEPT !.terms[tid].cursor_blink_state = TRUE], tid)
    ELSE w

\* a key press in a realized widget without margin bell.  modifier: the key
\* is a modifier key, which the input method leaves alone and for which
\* nothing is sent; otherwise the input method takes the key and commits
\* text (vte_terminal_im_commit), and the handler returns.
vte_terminal_key_press(w, tid, modifier, text, count) ==
    IF modifier THEN key_press_blink(w, tid)
    ELSE vte_terminal_im_commit(
             vte_terminal_set_pointer_visible(key_press_blink(w, tid), tid, FALSE),
             tid, text, count)

(***************************************************************************)
(* The timer callbacks.  A callback walks the active list as it was when   *)
(* the walk reached each link (next is read before the body runs).         *)
(***************************************************************************)
need_processing(w, tid) == incoming_chunks_length(w.terms[tid].incoming) # 0

\* the reads a callback makes before it looks at the incoming data
callback_read(w, tid) ==
    LET t == w.terms[tid]
    IN IF t.pty_channel
       THEN vte_terminal_enable_input_source(
                IF t.pty_input_active \/ ~t.pty_input_source
                THEN vte_terminal_io_read(
                         [w EXCEPT !.terms[tid].pty_input_active = FALSE], tid).w
                ELSE w, tid)
       ELSE w

\* time_process_incoming; the adaptation of max_input_bytes to the elapsed
\* time is left out
callback_process(w, tid) ==
    IF need_processing(w, tid)
    THEN [vte_terminal_process_incoming(w, tid) EXCEPT !.terms[tid].input_bytes = 0]
    ELSE vte_terminal_emit_pending_signals(w, tid)

delete_link(w, tid) ==
    IF w.terms[tid].active
    THEN [w EXCEPT !.active_terminals = RemoveFirst(@, tid),
                   !.terms[tid].active = FALSE]
    ELSE w

update_regions(w, tid) ==
    LET t == w.terms[tid]
    IN IF ~t.realized \/ t.visibility_state = "fully_obscured"
       THEN [w |-> reset_update_regions(w, tid), redraw |-> FALSE]
       ELSE IF ~t.update_regions THEN [w |-> w, redraw |-> FALSE]
       ELSE [w |-> [w EXCEPT !.terms[tid].update_regions = FALSE,
                             !.terms[tid].invalidated_all = FALSE],
             redraw |-> TRUE]

RECURSIVE process_timeout_walk(_, _)
process_timeout_walk(w, l) ==
    LET tid == Head(l)
    IN IF l = <<>> THEN w
       ELSE The({ The({
                IF w2.terms[tid].crashed THEN w2
                ELSE process_timeout_walk(
                         IF ~need_processing(w1, tid) /\ ~w2.terms[tid].update_regions
                         THEN delete_link(w2, tid) ELSE w2,
                         Tail(l))
                : w2 \in {callback_process(w1, tid)} })
              : w1 \in {callback_read(w, tid)} })

process_timeout(w) ==
    The({ LET again == w1.active_terminals # <<>> /\ w1.update_timeout_tag = 0
              w2 == [w1 EXCEPT !.process_timeout_tag = IF again THEN @ ELSE 0,
                               !.in_process_timeout = FALSE]
          IN IF ~again /\ w2.update_timeout_tag = 0 THEN prune_chunks(w2, 10) ELSE w2
          : w1 \in {process_timeout_walk([w EXCEPT !.in_process_timeout = TRUE],
                                         w.active_terminals)} })

RECURSIVE update_repeat_timeout_walk(_, _)
update_repeat_timeout_walk(w, l) ==
    LET tid == Head(l)
    IN IF l = <<>> THEN w
       ELSE The({ IF w2.terms[tid].crashed THEN w2
                  ELSE The({ update_repeat_timeout_walk(
                                 IF ~u.redraw THEN delete_link(u.w, tid) ELSE u.w,
                                 Tail(l))
                             : u \in {update_regions(w2, tid)} })
                  : w2 \in {callback_process(
                                vte_terminal_emit_adjustment_changed(
                                    callback_read(w, tid), tid),
                                tid)} })

update_repeat_timeout(w) ==
    The({ LET again == w1.active_terminals # <<>>
              w2 == [w1 EXCEPT !.update_timeout_tag = IF again THEN @ ELSE 0,
                               !.in_update_timeout = FALSE]
          IN IF again THEN w2 ELSE prune_chunks(w2, 10)
          : w1 \in {update_repeat_timeout_walk([w EXCEPT !.in_update_timeout = TRUE],
                                               w.active_terminals)} })

RECURSIVE update_timeout_walk(_, _)
update_timeout_walk(w, l) ==
    LET tid == Head(l)
    IN IF l = <<>> THEN w
       ELSE The({ IF w2.terms[tid].crashed THEN w2
                  ELSE update_timeout_walk(update_regions(w2, tid).w, Tail(l))
                  : w2 \in {callback_process(
                                vte_terminal_emit_adjustment_changed(
                                    callback_read(w, tid), tid),
                                tid)} })

update_timeout(w) ==
    [update_timeout_walk([w EXCEPT !.in_update_timeout = TRUE,
                                   !.process_timeout_tag = 0],
                         w.active_terminals)
        EXCEPT !.update_timeout_tag = 2, !.in_update_timeout = FALSE]

(***************************************************************************)
(* Visibility, size, scrollback, reset.                                    *)
(***************************************************************************)
vte_terminal_set_visibility(w, tid, state) ==
    LET t == w.terms[tid]
    IN IF state = t.visibility_state THEN w
       ELSE LET w1 == IF t.visibility_state = "fully_obscured"
                      THEN LET u == [w EXCEPT !.terms[tid].invalidated_all = FALSE]
                           IN IF state = "unobscured" THEN vte_invalidate_all(u, tid) ELSE u
                      ELSE w
                w2 == [w1 EXCEPT !.terms[tid].visibility_state = state]
            IN IF state = "fully_obscured"
               THEN [remove_update_timeout(w2, tid) EXCEPT !.terms[tid].invalidated_all = TRUE]
               ELSE w2

vte_terminal_set_scrollback_lines(w, tid, lines0) ==
    LET lines1 == IF lines0 < 0 THEN GMaxLong ELSE lines0
        w1 == [w EXCEPT !.terms[tid].scrollback_lines = lines1]
        t == w.terms[tid]
        s == Scr(t)
        lines == Max(lines1, t.row_count)
        next0 == Max(s.cursor_current.row + 1, ring_next(s.row_data))
    IN vte_terminal_adjust_adjustments_full(
           IF t.screen = "normal"
           THEN The({ LET low == ring_delta(r1)
                          high == lines + Min(GMaxLong - lines, low - t.row_count + 1)
                          insert_delta == Clamp(s.insert_delta, low, high)
                          scroll_delta == Clamp(s.scroll_delta, low, insert_delta)
                          next == Min(next0, insert_delta + t.row_count)
                      IN vte_terminal_queue_adjustment_value_changed(
                             SetS(w1, tid,
                                  [s EXCEPT !.row_data =
                                                IF ring_next(r1) > next
                                                THEN ring_shrink(r1, next - low)
                                                ELSE r1,
                                            !.insert_delta = insert_delta]),
                             tid, scroll_delta)
                      : r1 \in {ring_resize(s.row_data, lines)} })
           ELSE The({ LET d == ring_delta(r1)
                      IN vte_terminal_queue_adjustment_value_changed(
                             SetS(w1, tid,
                                  [s EXCEPT !.row_data =
                                                IF ring_next(r1) > d + t.row_count
                                                THEN ring_shrink(r1, t.row_count)
                                                ELSE r1,
                                            !.insert_delta = d]),
                             tid, d)
                      : r1 \in {ring_resize(s.row_data, t.row_count)} }),
           tid)

\* width and height are the cells that fit the allocation
size_allocate_clamp_region(w1, tid) ==
    LET s1 == TScr(w1, tid)
        rc == w1.terms[tid].row_count
    IN IF s1.scrolling_restricted
       THEN SetS(w1, tid, [s1 EXCEPT !.scrolling_region.start = Min(@, rc - 1),
                                     !.scrolling_region.end = Min(@, rc - 1)])
       ELSE w1

size_allocate_clamp_cursor(w3, tid) ==
    LET s3 == TScr(w3, tid)
        d == ring_delta(s3.row_data)
    IN SetS(w3, tid, [s3 EXCEPT !.cursor_current.row =
                          Clamp(@, d, Max(d, ring_next(s3.row_data) - 1))])

\* the size changed: the screen set to the new size, the scrolling region
\* and the cursor kept inside it
size_allocate_resize(w0, tid, width, height) ==
    vte_terminal_queue_contents_changed(size_allocate_clamp_cursor(
        The({ vte_terminal_set_scrollback_lines(w2, tid,
                  w2.terms[tid].scrollback_lines)
              : w2 \in {size_allocate_clamp_region(
                            vte_terminal_set_size(w0, tid, width, height), tid)} }),
        tid), tid)

vte_terminal_size_allocate(w, tid, width, height) ==
    LET t == w.terms[tid]
        repaint == t.allocation # [width |-> width, height |-> height]
        update_scrollback == t.allocation.height # height
        w0 == [w EXCEPT !.terms[tid].allocation = [width |-> width, height |-> height]]
    IN The({ IF w4.terms[tid].realized /\ repaint
             THEN vte_invalidate_all(reset_update_regions(w4, tid), tid)
             ELSE w4
             : w4 \in {IF width # t.column_count \/ height # t.row_count
                          \/ update_scrollback
                       THEN size_allocate_resize(w0, tid, width, height)
                       ELSE w0} })

vte_screen_set_default_attributes(s) ==
    [s EXCEPT !.defaults = basic_cell, !.color_defaults = basic_cell,
              !.fill_defaults = basic_cell]

\* the reset that leaves the pending code points and the outgoing buffer
vte_terminal_reset_buffers_kept(w, tid, clear_tabstops, clear_history) ==
    LET w1 == vte_terminal_deselect_all(
                  incoming_chunks_release(vte_terminal_stop_processing(w, tid), tid),
                  tid)
        t1 == w1.terms[tid]
        t2 == [t1 EXCEPT !.has_selection = FALSE, !.selection = NullStr,
                         !.selecting = FALSE, !.selecting_restart = FALSE,
                         !.selecting_had_delta = FALSE,
                         !.selection_origin.x = IF t1.selection.null THEN @ ELSE 0,
                         !.selection_last.x = IF t1.selection.null THEN @ ELSE 0,
                         !.mouse_last_button = 0, !.cursor_visible = TRUE,
                         !.mouse_last_x = 0, !.mouse_last_y = 0,
                         !.alternate_screen = vte_screen_set_default_attributes(@),
                         !.normal_screen = vte_screen_set_default_attributes(@),
                         !.screen = "normal"]
        clear(s, max_rows) ==
            [s EXCEPT !.row_data = ring_init(max_rows),
                      !.cursor_saved = [row |-> 0, col |-> 0],
                      !.cursor_current = [row |-> 0, col |-> 0],
                      !.scroll_delta = 0, !.insert_delta = 0]
        t3 == IF clear_history
              THEN [t2 EXCEPT !.normal_screen = clear(@, t2.scrollback_lines),
                              !.alternate_screen = clear(@, t2.row_count)]
              ELSE t2
        w3 == IF clear_history
              THEN vte_terminal_adjust_adjustments_full(SetT(w1, tid, t3), tid)
              ELSE SetT(w1, tid, t3)
        modes(s) == [s EXCEPT !.scrolling_restricted = FALSE, !.insert_mode = FALSE]
        w4 == [w3 EXCEPT !.terms[tid].normal_screen = modes(@),
                         !.terms[tid].alternate_screen = modes(@)]
    IN vte_invalidate_all(vte_terminal_maybe_scroll_to_bottom(w4, tid), tid)

\* The switch between the normal and the alternate screen (vteseq.c): the
\* cursor of the screen that is left is saved and that of the screen that
\* is entered restored, the adjustments are computed anew and the whole
\* widget is invalidated.
vte_sequence_handler_screen_switch(w, tid, to) ==
    LET w1 == SetS(w, tid, [TScr(w, tid) EXCEPT
                               !.cursor_saved = TScr(w, tid).cursor_current])
        w2 == [w1 EXCEPT !.terms[tid].screen = to]
        w3 == SetS(w2, tid, [TScr(w2, tid) EXCEPT
                                !.cursor_current = TScr(w2, tid).cursor_saved])
    IN vte_invalidate_all(vte_terminal_adjust_adjustments_full(w3, tid), tid)

vte_terminal_reset(w, tid, clear_tabstops, clear_history) ==
    LET w1 == vte_terminal_deselect_all(
                  incoming_chunks_release(vte_terminal_stop_processing(w, tid), tid),
                  tid)
        t1 == w1.terms[tid]
        t2 == [t1 EXCEPT !.pending = <<>>,
                         !.has_selection = FALSE, !.selection = NullStr,
                         !.selecting = FALSE, !.selecting_restart = FALSE,
                         !.selecting_had_delta = FALSE,
                         !.selection_origin.x = IF t1.selection.null THEN @ ELSE 0,
                         !.selection_last.x = IF t1.selection.null THEN @ ELSE 0,
                         !.outgoing = <<>>,
                         !.mouse_last_button = 0, !.cursor_visible = TRUE,
                         !.mouse_last_x = 0, !.mouse_last_y = 0,
                         !.alternate_screen = vte_screen_set_default_attributes(@),
                         !.normal_screen = vte_screen_set_default_attributes(@),
                         !.screen = "normal"]
        clear(s, max_rows) ==
            [s EXCEPT !.row_data = ring_init(max_rows),
                      !.cursor_saved = [row |-> 0, col |-> 0],
                      !.cursor_current = [row |-> 0, col |-> 0],
                      !.scroll_delta = 0, !.insert_delta = 0]
        t3 == IF clear_history
              THEN [t2 EXCEPT !.normal_screen = clear(@, t2.scrollback_lines),
                              !.alternate_screen = clear(@, t2.row_count)]
              ELSE t2
        w3 == IF clear_history
              THEN vte_terminal_adjust_adjustments_full(SetT(w1, tid, t3), tid)
              ELSE SetT(w1, tid, t3)
        modes(s) == [s EXCEPT !.scrolling_restricted = FALSE, !.insert_mode = FALSE]
        w4 == [w3 EXCEPT !.terms[tid].normal_screen = modes(@),
                         !.terms[tid].alternate_screen = modes(@)]
    IN vte_invalidate_all(vte_terminal_maybe_scroll_to_bottom(w4, tid), tid)

\* vte_terminal_finalize: the terminal leaves the active list, its data and
\* its pty are let go, and the object is freed
\* the finalizer without its call of remove_update_timeout
vte_terminal_finalize_regions_kept(w, tid) ==
    LET w1 == incoming_chunks_release(
                  vte_terminal_stop_processing(
                      [w EXCEPT !.terms[tid].adjustment_changed_pending = FALSE], tid),
                  tid)
        w2 == [vte_terminal_disconnect_pty_write(
                   vte_terminal_disconnect_pty_read(
                       [w1 EXCEPT !.terms[tid].outgoing = <<>>,
                                  !.terms[tid].pending = <<>>], tid), tid)
                  EXCEPT !.terms[tid].pty_channel = FALSE, !.terms[tid].pty = FALSE]
    IN [w2 EXCEPT !.terms[tid].finalized = TRUE]

vte_terminal_finalize(w, tid) ==
    LET w1 == incoming_chunks_release(
                  vte_terminal_stop_processing(
                      [w EXCEPT !.terms[tid].adjustment_changed_pending = FALSE], tid),
                  tid)
        w2 == [vte_terminal_disconnect_pty_write(
                   vte_terminal_disconnect_pty_read(
                       [w1 EXCEPT !.terms[tid].outgoing = <<>>,
                                  !.terms[tid].pending = <<>>], tid), tid)
                  EXCEPT !.terms[tid].pty_channel = FALSE, !.terms[tid].pty = FALSE]
    IN [remove_update_timeout(w2, tid) EXCEPT !.terms[tid].finalized = TRUE]

\* vte_terminal_set_scroll_on_output
vte_terminal_set_scroll_on_output(w, tid, scroll) ==
    [w EXCEPT !.terms[tid].scroll_on_output = scroll]

vte_terminal_realize(w, tid) ==
    [w EXCEPT !.terms[tid].realized = TRUE,
              !.terms[tid].mouse_cursor_visible = TRUE]

(***************************************************************************)
(* Construction.                                                           *)
(***************************************************************************)
ZeroScreen ==
    [row_data |-> ring_init(0),
     cursor_current |-> [row |-> 0, col |-> 0],
     cursor_saved |-> [row |-> 0, col |-> 0],
     insert_delta |-> 0, scroll_delta |-> 0,
     scrolling_restricted |-> FALSE,
     scrolling_region |-> [start |-> 0, end |-> 0],
     insert_mode |-> FALSE,
     defaults |-> basic_cell, color_defaults |-> basic_cell,
     fill_defaults |-> basic_cell]

ZeroTerminal ==
    [row_count |-> 0, column_count |-> 0, scrollback_lines |-> 0,
     scroll_on_output |-> FALSE, flags_am |-> FALSE, flags_xn |-> FALSE,
     screen |-> "normal", normal_screen |-> ZeroScreen,
     alternate_screen |-> ZeroScreen,
     vadjustment |-> [lower |-> 0, upper |-> 0, page_size |-> 0, value |-> 0],
     adjustment_changed_pending |-> FALSE,
     adjustment_value_changed_pending |-> FALSE,
     realized |-> FALSE, visibility_state |-> "unobscured",
     invalidated_all |-> FALSE, update_regions |-> FALSE, active |-> FALSE,
     incoming |-> <<>>, pending |-> <<>>, input_bytes |-> 0,
     max_input_bytes |-> VTE_MAX_INPUT_READ,
     pty_channel |-> FALSE, pty_input_source |-> FALSE,
     pty_input_active |-> FALSE, pty_data |-> <<>>,
     pty |-> FALSE, pty_read |-> "EAGAIN", pty_output_source |-> FALSE,
     outgoing |-> <<>>, pty_written |-> <<>>, log_commit |-> <<>>,
     log_warnings |-> {}, eof_queued |-> FALSE, log_eof |-> FALSE,
     allocation |-> [width |-> 0, height |-> 0],
     text_inserted_flag |-> FALSE, contents_changed_pending |-> FALSE,
     match_regexes |-> <<>>, match_contents |-> NullStr, match_attributes |-> <<>>,
     match_start |-> [row |-> -1, col |-> -1], match_end |-> [row |-> -2, col |-> -2],
     match_tag |-> -1, match |-> NullStr, show_match |-> FALSE,
     mouse_cursor_visible |-> FALSE, mouse_last_x |-> 0, mouse_last_y |-> 0,
     has_selection |-> FALSE, selection |-> NullStr,
     selection_start |-> [row |-> 0, col |-> 0],
     selection_end |-> [row |-> 0, col |-> 0], selection_block_mode |-> FALSE,
     trace_signals |-> FALSE, log_contents_changed |-> 0,
     word_chars |-> [null |-> TRUE, ranges |-> <<>>],
     selecting |-> FALSE, selecting_restart |-> FALSE,
     selecting_had_delta |-> FALSE,
     selection_last |-> [x |-> 0, y |-> 0], selection_origin |-> [x |-> 0, y |-> 0],
     mouse_last_button |-> 0, scroll_on_keystroke |-> FALSE,
     has_focus |-> FALSE, cursor_visible |-> FALSE, cursor_blinks |-> FALSE,
     cursor_blink_state |-> FALSE, cursor_blink_tag |-> FALSE,
     cursor_blink_time |-> 0, cursor_blink_cycle |-> 0, cursor_blink_timeout |-> 0,
     crashed |-> FALSE, finalized |-> FALSE,
     trace |-> FALSE, log_consumed |-> <<>>, log_decoded |-> <<>>, log_shuffled |-> 0,
     log_handled |-> <<>>]

Terminals == {1}

ZeroWorld ==
    [terms |-> [tid \in Terminals |-> ZeroTerminal],
     active_terminals |-> <<>>,
     process_timeout_tag |-> 0, update_timeout_tag |-> 0,
     in_process_timeout |-> FALSE, in_update_timeout |-> FALSE,
     free_chunks |-> 0]

\* vte_terminal_init with the default size and scrollback given, and the
\* am and xn capabilities of the emulation
vte_terminal_init(w, tid, columns, rows, lines, am, xn) ==
    LET t1 == [ZeroTerminal EXCEPT
                   !.alternate_screen.row_data = ring_init(0),
                   !.normal_screen.row_data = ring_init(lines),
                   !.flags_am = am, !.flags_xn = xn,
                   !.scroll_on_keystroke = TRUE,
                   !.cursor_visible = TRUE,
                   !.cursor_blink_timeout = VTE_BLINK_TIMEOUT_INIT,
                   !.cursor_blinks = FALSE]
        w1 == vte_terminal_set_size(SetT(w, tid, t1), tid, columns, rows)
        w2 == [w1 EXCEPT !.terms[tid].scrollback_lines = -1]
    IN vte_terminal_set_word_chars(
           vte_terminal_set_scrollback_lines(w2, tid, lines), tid, NullStr)

(***************************************************************************)
(* The state machine.  The variables are the statics of vte.c and the      *)
(* terminals; World puts them in the record the operators work on.         *)
(*   stream   what the producer of the input has still to send             *)
(*   fed      the bytes given to vte_terminal_feed or written to the pty   *)
(*   nunits, nexternal   what the behaviour has used of its bounds         *)
(***************************************************************************)
\* The chunks as objects in memory are followed in SpecChunks alone; the
\* other specifications keep the data of the chunks and their number.
NoPool == <<>>

VARIABLES terms, active_terminals, process_timeout_tag, update_timeout_tag,
          in_process_timeout, in_update_timeout, free_chunks, pool,
          stream, fed, nunits, nexternal

vars == <<terms, active_terminals, process_timeout_tag, update_timeout_tag,
          in_process_timeout, in_update_timeout, free_chunks, pool,
          stream, fed, nunits, nexternal>>

World ==
    [terms |-> terms, active_terminals |-> active_terminals,
     process_timeout_tag |-> process_timeout_tag,
     update_timeout_tag |-> update_timeout_tag,
     in_process_timeout |-> in_process_timeout,
     in_update_timeout |-> in_update_timeout,
     free_chunks |-> free_chunks]

Commit(w) ==
    /\ terms' = w.terms
    /\ active_terminals' = w.active_terminals
    /\ process_timeout_tag' = w.process_timeout_tag
    /\ update_timeout_tag' = w.update_timeout_tag
    /\ in_process_timeout' = w.in_process_timeout
    /\ in_update_timeout' = w.in_update_timeout
    /\ free_chunks' = w.free_chunks
    /\ pool' = pool

Alive == \A tid \in Terminals : ~terms[tid].crashed

\* the bytes waiting in the incoming chunks, oldest first
RECURSIVE ChunkBytes(_)
ChunkBytes(chunks) ==
    IF chunks = <<>> THEN <<>> ELSE Head(chunks) \o ChunkBytes(Tail(chunks))
QueuedBytes(t) == ChunkBytes(incoming_chunks_reverse(t.incoming))

\* the state after vte_terminal_init of the one terminal
InitWith(columns, rows, lines, am, xn, tr, input) ==
    /\ \E w \in {[vte_terminal_init(ZeroWorld, 1, columns, rows, lines, am, xn)
                     EXCEPT !.terms[1].trace = tr]} :
          /\ terms = w.terms
          /\ active_terminals = w.active_terminals
          /\ process_timeout_tag = w.process_timeout_tag
          /\ update_timeout_tag = w.update_timeout_tag
          /\ in_process_timeout = w.in_process_timeout
          /\ in_update_timeout = w.in_update_timeout
          /\ free_chunks = w.free_chunks
          /\ pool = NoPool
    /\ stream = input
    /\ fed = <<>>
    /\ nunits = 0
    /\ nexternal = 0

\* vte_terminal_feed with the bytes of the code points u, in a behaviour
\* of at most max such calls
FeedUpTo(tid, u, max) ==
    /\ Alive
    /\ nunits < max
    /\ Len(QueuedBytes(terms[tid])) + Len(terms[tid].pending) < MaxQueued
    /\ Commit(vte_terminal_feed(World, tid, utf8_string(u)))
    /\ nunits' = nunits + 1
    /\ UNCHANGED <<stream, fed, nexternal>>

\* vte_terminal_feed with the bytes of one character or control sequence
FeedUnit(tid, u) == FeedUpTo(tid, u, MaxUnits)

\* the bytes a step has read from the pty
PtyTaken(w) ==
    [tid \in Terminals |->
        SubSeq(terms[tid].pty_data, 1,
               Len(terms[tid].pty_data) - Len(w.terms[tid].pty_data))]

\* a callback of the main loop, with the reads it makes
Callback(w) ==
    /\ Alive
    /\ Commit(w)
    /\ fed' = fed \o PtyTaken(w)[1]
    /\ UNCHANGED <<stream, nunits, nexternal>>

ProcessTimeout ==
    /\ process_timeout_tag # 0
    /\ Callback(process_timeout(World))

UpdateTimeout ==
    /\ update_timeout_tag = 1
    /\ Callback(update_timeout(World))

UpdateRepeatTimeout ==
    /\ update_timeout_tag = 2
    /\ Callback(update_repeat_timeout(World))

External(w) ==
    /\ Alive
    /\ nexternal < MaxExternal
    /\ Commit(w)
    /\ nexternal' = nexternal + 1
    /\ UNCHANGED <<stream, fed, nunits>>

SetSize(tid, columns, rows) ==
    External(vte_terminal_set_size(World, tid, columns, rows))

SizeAllocate(tid, width, height) ==
    External(vte_terminal_size_allocate(World, tid, width, height))

SetScrollbackLines(tid, lines) ==
    External(vte_terminal_set_scrollback_lines(World, tid, lines))

SetScrollOnOutput(tid, scroll) ==
    External(vte_terminal_set_scroll_on_output(World, tid, scroll))

Reset(tid, clear_history) ==
    External(vte_terminal_reset(World, tid, TRUE, clear_history))

\* the user moves the scrollbar: gtk_adjustment_set_value on vadjustment
UserScroll(tid, value) ==
    External(gtk_adjustment_set_value(World, tid, value))

(***************************************************************************)
(* Spec: characters and cursor controls written to a small grid.           *)
(***************************************************************************)
GridColumns == {2, 3}
GridUnits ==
    { <<NarrowChar>>, <<WideChar>>, <<MarkChar>>,
      SeqCR, SeqBS, SeqCUF, SeqIRMOn }

Init ==
    \E columns \in GridColumns, am \in BOOLEAN, xn \in BOOLEAN :
        InitWith(columns, 1, 2, am, xn, FALSE, <<>>)

Next ==
    \/ \E u \in GridUnits : FeedUnit(1, u)
    \/ ProcessTimeout
    \/ UpdateTimeout
    \/ UpdateRepeatTimeout
    \/ \E columns \in GridColumns : SetSize(1, columns, 1)

Spec == Init /\ [][Next]_vars

(***************************************************************************)
(* SpecScroll: line feeds, the scrollbar, resizes and resets.              *)
(***************************************************************************)
ScrollRows == {1, 2}
ScrollUnits == { <<NarrowChar>>, SeqLF }
ScrollValues == 0..2
ScrollbackValues == {-1, 2, 3}

InitScroll ==
    \E rows \in ScrollRows : InitWith(2, rows, 2, TRUE, TRUE, FALSE, <<>>)

NextScroll ==
    \/ \E u \in ScrollUnits : FeedUnit(1, u)
    \/ ProcessTimeout
    \/ UpdateTimeout
    \/ UpdateRepeatTimeout
    \/ \E rows \in ScrollRows : SetSize(1, 2, rows)
    \/ \E rows \in ScrollRows : SizeAllocate(1, 2, rows)
    \/ \E lines \in ScrollbackValues : SetScrollbackLines(1, lines)
    \/ \E scroll \in BOOLEAN : SetScrollOnOutput(1, scroll)
    \/ \E clear_history \in BOOLEAN : Reset(1, clear_history)
    \/ \E value \in ScrollValues : UserScroll(1, value)

SpecScroll == InitScroll /\ [][NextScroll]_vars

(***************************************************************************)
(* SpecRegion: line feeds in a grid of three rows with a scrolling region  *)
(* of rows 1..2 or 0..1, and a resize of the rows.                         *)
(***************************************************************************)
RegionRows == {2, 3}
RegionUnits == { <<NarrowChar>>, SeqLF, <<NarrowChar>> \o SeqLF, SeqCS12, SeqCS01 }

InitRegion == InitWith(2, 3, 4, TRUE, TRUE, FALSE, <<>>)

NextRegion ==
    \/ \E u \in RegionUnits : FeedUpTo(1, u, MaxRegionUnits)
    \/ ProcessTimeout
    \/ UpdateTimeout
    \/ UpdateRepeatTimeout
    \/ \E rows \in RegionRows : SetSize(1, 2, rows)

SpecRegion == InitRegion /\ [][NextRegion]_vars

(***************************************************************************)
(* SpecMatch: a realized terminal of two columns and two rows, the match   *)
(* table, the pointer and the selection.                                   *)
(***************************************************************************)
MatchUnits == { <<NarrowChar>>, <<OtherChar>>, <<NarrowChar, OtherChar>>, SeqCR }
MatchRegexes == { <<NarrowChar>>, <<NarrowChar, OtherChar>> }
MatchTags == 0..1
MatchColumns == 0..1
MatchRows == 0..1

\* the terminal after vte_terminal_init, realized and given its size (the
\* pointer is then taken to be visible) or not yet realized
InitMatch ==
    /\ \E realized \in BOOLEAN :
       \E w0 \in {[vte_terminal_init(ZeroWorld, 1, 2, 2, 2, TRUE, TRUE)
                      EXCEPT !.terms[1].trace_signals = TRUE]} :
       \E w \in {IF realized
                 THEN vte_terminal_size_allocate(vte_terminal_realize(w0, 1), 1, 2, 2)
                 ELSE w0} :
          /\ terms = w.terms
          /\ active_terminals = w.active_terminals
          /\ process_timeout_tag = w.process_timeout_tag
          /\ update_timeout_tag = w.update_timeout_tag
          /\ in_process_timeout = w.in_process_timeout
          /\ in_update_timeout = w.in_update_timeout
          /\ free_chunks = w.free_chunks
          /\ pool = NoPool
    /\ stream = <<>>
    /\ fed = <<>>
    /\ nunits = 0
    /\ nexternal = 0

\* a call of the match or selection interface, or an event of the pointer
MatchOp(w) ==
    /\ Alive
    /\ nexternal < MaxMatchOps
    /\ Commit(w)
    /\ nexternal' = nexternal + 1
    /\ UNCHANGED <<stream, fed, nunits>>

MatchAdd(tid, regex) ==
    /\ Len(terms[tid].match_regexes) < MaxRegexes
       \/ \E i \in 1..Len(terms[tid].match_regexes) : terms[tid].match_regexes[i].tag = -1
    /\ MatchOp(vte_terminal_match_add_gregex(World, tid, regex))

MatchRemove(tid, tag) == MatchOp(vte_terminal_match_remove(World, tid, tag))

MatchCheck(tid, column, row) ==
    MatchOp(vte_terminal_match_check(World, tid, column, row).w)

\* the pointer moves over the window of a realized terminal
MotionNotify(tid, x, y) ==
    /\ terms[tid].realized
    /\ MatchOp(vte_terminal_motion_notify(World, tid, x, y))

SelectAll(tid) == MatchOp(vte_terminal_select_all(World, tid))

SelectNone(tid) == MatchOp(vte_terminal_select_none(World, tid))

NextMatch ==
    \/ \E u \in MatchUnits : FeedUpTo(1, u, MaxMatchUnits)
    \/ ProcessTimeout
    \/ UpdateTimeout
    \/ UpdateRepeatTimeout
    \/ \E regex \in MatchRegexes : MatchAdd(1, regex)
    \/ \E tag \in MatchTags : MatchRemove(1, tag)
    \/ \E column \in MatchColumns, row \in MatchRows : MatchCheck(1, column, row)
    \/ \E x \in MatchColumns, y \in MatchRows : MotionNotify(1, x, y)
    \/ SelectAll(1)
    \/ SelectNone(1)

SpecMatch == InitMatch /\ [][NextMatch]_vars

(***************************************************************************)
(* SpecWord: characters on one row and the word characters set by          *)
(* vte_terminal_set_word_chars.                                            *)
(***************************************************************************)
WordUnits == { <<NarrowChar>>, <<OtherChar>>, <<HyphenChar>>, <<WideChar>> }
WordSpecs == { NullStr, Str(<<>>), Str(<<NarrowChar>>), Str(<<HyphenChar>>),
               Str(<<NarrowChar, HyphenChar, OtherChar>>) }

InitWord == InitWith(3, 1, 1, TRUE, TRUE, FALSE, <<>>)

SetWordChars(tid, spec) ==
    /\ Alive
    /\ nexternal < MaxWordOps
    /\ Commit(vte_terminal_set_word_chars(World, tid, spec))
    /\ nexternal' = nexternal + 1
    /\ UNCHANGED <<stream, fed, nunits>>

NextWord ==
    \/ \E u \in WordUnits : FeedUpTo(1, u, MaxWordUnits)
    \/ ProcessTimeout
    \/ UpdateTimeout
    \/ UpdateRepeatTimeout
    \/ \E spec \in WordSpecs : SetWordChars(1, spec)

SpecWord == InitWord /\ [][NextWord]_vars

(***************************************************************************)
(* SpecPipe: a byte stream reaches the terminal through vte_terminal_feed  *)
(* and through the pty, cut into pieces at any byte, while the widget is   *)
(* realized, obscured and invalidated.  The terminal keeps the trace of    *)
(* what it consumed, decoded and handed to the handlers.                   *)
(***************************************************************************)
PipeUnits == { <<NarrowChar>>, <<WideChar>>, SeqCUF }

RECURSIVE StreamsUpTo(_)
StreamsUpTo(n) ==
    {<<>>} \cup
    UNION { { utf8_string(u) \o rest : rest \in StreamsUpTo(n - Len(utf8_string(u))) } :
            u \in { v \in PipeUnits : Len(utf8_string(v)) <= n } }

VisibilityStates == {"unobscured", "partial", "fully_obscured"}

InitPipe ==
    \E input \in StreamsUpTo(MaxFed) : InitWith(2, 1, 2, TRUE, TRUE, TRUE, input)

\* vte_terminal_feed with the next k bytes of the stream
Feed(tid, k) ==
    /\ Alive
    /\ k <= Len(stream)
    /\ Commit(vte_terminal_feed(World, tid, SubSeq(stream, 1, k)))
    /\ stream' = SubSeq(stream, k + 1, Len(stream))
    /\ fed' = fed \o SubSeq(stream, 1, k)
    /\ UNCHANGED <<nunits, nexternal>>

\* the child writes the next k bytes of the stream to the pty
ChildWrite(tid, k) ==
    /\ Alive
    /\ terms[tid].pty_channel
    /\ k <= Len(stream)
    /\ terms' = [terms EXCEPT ![tid].pty_data = @ \o SubSeq(stream, 1, k)]
    /\ stream' = SubSeq(stream, k + 1, Len(stream))
    /\ UNCHANGED <<active_terminals, process_timeout_tag, update_timeout_tag,
                   in_process_timeout, in_update_timeout, free_chunks, pool,
                   fed, nunits, nexternal>>

\* the input source of the pty fires vte_terminal_io_read; the source is
\* removed when the callback returns FALSE
IoRead(tid) ==
    /\ terms[tid].pty_input_source
    /\ terms[tid].pty_data # <<>> \/ terms[tid].pty_read # "EAGAIN"
    /\ \E r \in {vte_terminal_io_read(World, tid)} :
          Callback(IF r.again THEN r.w ELSE mark_input_source_invalid(r.w, tid))

SetPty(tid) ==
    /\ Alive
    /\ ~terms[tid].pty_channel
    /\ Commit(vte_terminal_set_pty(World, tid, TRUE))
    /\ UNCHANGED <<stream, fed, nunits, nexternal>>

Realize(tid) ==
    /\ Alive
    /\ ~terms[tid].realized
    /\ Commit(vte_terminal_realize(World, tid))
    /\ UNCHANGED <<stream, fed, nunits, nexternal>>

\* a visibility-notify event of the realized widget
SetVisibility(tid, state) ==
    /\ terms[tid].realized
    /\ External(vte_terminal_set_visibility(World, tid, state))

InvalidateAll(tid) ==
    External(vte_invalidate_all(World, tid))

NextPipe ==
    \/ \E k \in 1..MaxFed : Feed(1, k)
    \/ \E k \in 1..MaxFed : ChildWrite(1, k)
    \/ IoRead(1)
    \/ SetPty(1)
    \/ Realize(1)
    \/ ProcessTimeout
    \/ UpdateTimeout
    \/ UpdateRepeatTimeout
    \/ \E state \in VisibilityStates : SetVisibility(1, state)
    \/ InvalidateAll(1)

SpecPipe == InitPipe /\ [][NextPipe]_vars

(***************************************************************************)
(* SpecChild: the two directions of the pty.  Text goes to the child       *)
(* through vte_terminal_feed_child and vte_terminal_io_write; the child    *)
(* writes, fails or closes its side, and vte_terminal_io_read reads.       *)
(***************************************************************************)
ChildTexts == { <<>>, <<NarrowChar>>, <<OtherChar, CarriageReturnByte>>,
                utf8(WideChar), <<Head(utf8(WideChar))>> }
ChildStream == utf8_string(<<NarrowChar, OtherChar>>)
ReadResults == { "EAGAIN", "EBUSY", "EIO", "EBADF", "EOF" }

InitChild ==
    /\ \E attached \in BOOLEAN :
       \E w0 \in {[vte_terminal_init(ZeroWorld, 1, 2, 1, 1, TRUE, TRUE)
                      EXCEPT !.terms[1].trace_signals = TRUE]} :
       \E w \in {IF attached THEN vte_terminal_set_pty(w0, 1, TRUE) ELSE w0} :
          /\ terms = w.terms
          /\ active_terminals = w.active_terminals
          /\ process_timeout_tag = w.process_timeout_tag
          /\ update_timeout_tag = w.update_timeout_tag
          /\ in_process_timeout = w.in_process_timeout
          /\ in_update_timeout = w.in_update_timeout
          /\ free_chunks = w.free_chunks
          /\ pool = NoPool
    /\ stream = ChildStream
    /\ fed = <<>>
    /\ nunits = 0
    /\ nexternal = 0

\* a call from the application
ChildOp(w) ==
    /\ Alive
    /\ nexternal < MaxChildOps
    /\ Commit(w)
    /\ nexternal' = nexternal + 1
    /\ UNCHANGED <<stream, fed, nunits>>

\* vte_terminal_feed_child; the write() it may make takes count bytes
FeedChild(tid, text, count) ==
    /\ count <= Len(terms[tid].outgoing) + Len(text)
    /\ ChildOp(vte_terminal_feed_child(World, tid, text, count))

\* the output source of the pty fires vte_terminal_io_write; the source is
\* removed when the callback returns FALSE
IoWrite(tid, count) ==
    /\ Alive
    /\ terms[tid].pty_output_source
    /\ count <= Len(terms[tid].outgoing)
    /\ \E r \in {vte_terminal_io_write(World, tid, count)} :
          Commit(IF r.leave_open THEN r.w
                 ELSE vte_terminal_disconnect_pty_write(r.w, tid))
    /\ UNCHANGED <<stream, fed, nunits, nexternal>>

AttachPty(tid) ==
    /\ ~terms[tid].pty
    /\ ChildOp(vte_terminal_set_pty(World, tid, TRUE))

DetachPty(tid) ==
    /\ terms[tid].pty
    /\ ChildOp(vte_terminal_set_pty(World, tid, FALSE))

\* the child's side fails or is closed: what read() gives from now on
ChildFails(tid, result) ==
    /\ Alive
    /\ terms[tid].pty
    /\ terms[tid].pty_read = "EAGAIN"
    /\ result # "EAGAIN"
    /\ terms' = [terms EXCEPT ![tid].pty_read = result]
    /\ UNCHANGED <<active_terminals, process_timeout_tag, update_timeout_tag,
                   in_process_timeout, in_update_timeout, free_chunks, pool,
                   stream, fed, nunits, nexternal>>

\* the idle source of vte_terminal_queue_eof
EmitEof(tid) ==
    /\ Alive
    /\ terms[tid].eof_queued
    /\ Commit(vte_terminal_emit_eof(World, tid))
    /\ UNCHANGED <<stream, fed, nunits, nexternal>>

NextChild ==
    \/ \E text \in ChildTexts, count \in -1..MaxWritten : FeedChild(1, text, count)
    \/ \E count \in -1..MaxWritten : IoWrite(1, count)
    \/ AttachPty(1)
    \/ DetachPty(1)
    \/ \E k \in 1..Len(ChildStream) : ChildWrite(1, k)
    \/ \E result \in ReadResults : ChildFails(1, result)
    \/ IoRead(1)
    \/ EmitEof(1)
    \/ ProcessTimeout
    \/ UpdateTimeout
    \/ UpdateRepeatTimeout

SpecChild == InitChild /\ [][NextChild]_vars

(***************************************************************************)
(* SpecResize: allocations of a new size, scrollback settings and resets   *)
(* of a terminal with output on its screen.                                *)
(***************************************************************************)
ResizeColumns == {2, 3}
ResizeRows == {2, 4}
ResizeUnits == { <<NarrowChar>>, SeqLF }
ResizeScrollback == {-1, 1, 3}

InitResize ==
    \E rows \in ResizeRows : InitWith(3, rows, 3, TRUE, TRUE, FALSE, <<>>)

ResizeOp(w) ==
    /\ Alive
    /\ nexternal < MaxResizeOps
    /\ Commit(w)
    /\ nexternal' = nexternal + 1
    /\ UNCHANGED <<stream, fed, nunits>>

\* the size_allocate handler with an allocation that holds width x height cells
Resize(tid, width, height) ==
    ResizeOp(vte_terminal_size_allocate(World, tid, width, height))

SetScrollback(tid, lines) ==
    ResizeOp(vte_terminal_set_scrollback_lines(World, tid, lines))

ResetHistory(tid, clear_history) ==
    ResizeOp(vte_terminal_reset(World, tid, TRUE, clear_history))

NextResize ==
    \/ \E u \in ResizeUnits : FeedUpTo(1, u, MaxResizeUnits)
    \/ ProcessTimeout
    \/ UpdateTimeout
    \/ UpdateRepeatTimeout
    \/ \E width \in ResizeColumns, height \in ResizeRows : Resize(1, width, height)
    \/ \E lines \in ResizeScrollback : SetScrollback(1, lines)
    \/ \E clear_history \in BOOLEAN : ResetHistory(1, clear_history)

SpecResize == InitResize /\ [][NextResize]_vars

(***************************************************************************)
(* SpecView: output below a view that the user may have scrolled back, in  *)
(* a grid of three or two rows with or without the scrolling region of     *)
(* rows 0..1.                                                              *)
(***************************************************************************)
ViewUnits == { <<NarrowChar>>, SeqLF, SeqCS01 }
ViewValues == 0..1
ViewRows == {2, 3}

InitView == InitWith(2, 3, 4, TRUE, TRUE, FALSE, <<>>)

ViewOp(w) ==
    /\ Alive
    /\ nexternal < MaxViewOps
    /\ Commit(w)
    /\ nexternal' = nexternal + 1
    /\ UNCHANGED <<stream, fed, nunits>>

\* the user moves the scrollbar
ScrollView(tid, value) == ViewOp(gtk_adjustment_set_value(World, tid, value))

ScrollOnOutput(tid, scroll) ==
    ViewOp(vte_terminal_set_scroll_on_output(World, tid, scroll))

\* the window is given the height of rows rows
AllocateView(tid, rows) ==
    ViewOp(vte_terminal_size_allocate(World, tid, 2, rows))

NextView ==
    \/ \E u \in ViewUnits : FeedUpTo(1, u, MaxViewUnits)
    \/ ProcessTimeout
    \/ UpdateTimeout
    \/ UpdateRepeatTimeout
    \/ \E value \in ViewValues : ScrollView(1, value)
    \/ \E scroll \in BOOLEAN : ScrollOnOutput(1, scroll)
    \/ \E rows \in ViewRows : AllocateView(1, rows)

SpecView == InitView /\ [][NextView]_vars

(***************************************************************************)
(* SpecInput: the events of a realized widget with a child on its pty:     *)
(* focus, key presses, button 1 of the pointer, the blink timer of the     *)
(* cursor, the desktop's blink settings and resets, while the child        *)
(* writes.                                                                 *)
(***************************************************************************)
InputStream == utf8_string(<<NarrowChar, OtherChar>>)
BlinkTimes == {1000}
BlinkTimeouts == {1}
PointerColumns == {0}
PointerRows == {0, 1}

InitInput ==
    /\ \E w \in {vte_terminal_sync_settings(
                     vte_terminal_realize(
                         vte_terminal_set_pty(
                             vte_terminal_init(ZeroWorld, 1, 2, 2, 2, TRUE, TRUE),
                             1, TRUE),
                         1),
                     1, TRUE, 1000, 1)} :
          /\ terms = w.terms
          /\ active_terminals = w.active_terminals
          /\ process_timeout_tag = w.process_timeout_tag
          /\ update_timeout_tag = w.update_timeout_tag
          /\ in_process_timeout = w.in_process_timeout
          /\ in_update_timeout = w.in_update_timeout
          /\ free_chunks = w.free_chunks
          /\ pool = NoPool
    /\ stream = InputStream
    /\ fed = <<>>
    /\ nunits = 0
    /\ nexternal = 0

\* an event of the user or a call of the application
InputOp(w) ==
    /\ Alive
    /\ nexternal < MaxInputOps
    /\ Commit(w)
    /\ nexternal' = nexternal + 1
    /\ UNCHANGED <<stream, fed, nunits>>

FocusIn(tid) ==
    /\ ~terms[tid].has_focus
    /\ InputOp(vte_terminal_focus_in(World, tid))

FocusOut(tid) ==
    /\ terms[tid].has_focus
    /\ InputOp(vte_terminal_focus_out(World, tid))

\* a key press reaches the widget that has the focus
KeyPress(tid, modifier, count) ==
    /\ terms[tid].has_focus
    /\ count <= Len(terms[tid].outgoing) + 1
    /\ InputOp(vte_terminal_key_press(World, tid, modifier, <<NarrowChar>>, count))

ButtonPress(tid, x, y) ==
    /\ terms[tid].mouse_last_button = 0
    /\ InputOp(vte_terminal_button_press(World, tid, x, y))

ButtonRelease(tid, x, y) ==
    /\ terms[tid].mouse_last_button = 1
    /\ InputOp(vte_terminal_button_release(World, tid, x, y))

SyncSettings(tid, blink, blink_time, blink_timeout) ==
    InputOp(vte_terminal_sync_settings(World, tid, blink, blink_time, blink_timeout))

ResetInput(tid, clear_history) ==
    InputOp(vte_terminal_reset(World, tid, TRUE, clear_history))

\* the blink timer fires vte_invalidate_cursor_periodic
BlinkTimeout(tid) ==
    /\ Alive
    /\ terms[tid].cursor_blink_tag
    /\ Commit(vte_invalidate_cursor_periodic(World, tid))
    /\ UNCHANGED <<stream, fed, nunits, nexternal>>

NextInput ==
    \/ FocusIn(1)
    \/ FocusOut(1)
    \/ \E modifier \in BOOLEAN, count \in 0..1 : KeyPress(1, modifier, count)
    \/ \E x \in PointerColumns, y \in PointerRows : ButtonPress(1, x, y)
    \/ \E x \in PointerColumns, y \in PointerRows : ButtonRelease(1, x, y)
    \/ \E blink \in BOOLEAN, blink_time \in BlinkTimes,
          blink_timeout \in BlinkTimeouts :
          SyncSettings(1, blink, blink_time, blink_timeout)
    \/ \E clear_history \in BOOLEAN : ResetInput(1, clear_history)
    \/ BlinkTimeout(1)
    \/ \E k \in 1..Len(InputStream) : ChildWrite(1, k)
    \/ IoRead(1)
    \/ \E count \in 0..1 : IoWrite(1, count)
    \/ ProcessTimeout
    \/ UpdateTimeout
    \/ UpdateRepeatTimeout

SpecInput == InitInput /\ [][NextInput]_vars

(***************************************************************************)
(* SpecShared: two terminals of one process.  They share the active list,  *)
(* the process timer, the update timer and the free list of chunks; each   *)
(* is fed, reads from its pty, is invalidated, reset and finalized in any  *)
(* order.                                                                  *)
(***************************************************************************)
Peers == {1, 2}
SharedUnits == { <<NarrowChar>> }
SharedStream == utf8_string(<<NarrowChar>>)

InitShared ==
    /\ \E w \in {vte_terminal_init(
                     vte_terminal_init(
                         [ZeroWorld EXCEPT !.terms = [tid \in Peers |-> ZeroTerminal]],
                         1, 1, 1, 1, TRUE, TRUE),
                     2, 1, 1, 1, TRUE, TRUE)} :
          /\ terms = w.terms
          /\ active_terminals = w.active_terminals
          /\ process_timeout_tag = w.process_timeout_tag
          /\ update_timeout_tag = w.update_timeout_tag
          /\ in_process_timeout = w.in_process_timeout
          /\ in_update_timeout = w.in_update_timeout
          /\ free_chunks = w.free_chunks
          /\ pool = NoPool
    /\ stream = SharedStream
    /\ fed = <<>>
    /\ nunits = 0
    /\ nexternal = 0

PeersAlive == \A tid \in Peers : ~terms[tid].crashed

\* a call of the application on a terminal that has not been finalized
SharedOp(tid, w) ==
    /\ PeersAlive
    /\ ~terms[tid].finalized
    /\ nexternal < MaxSharedOps
    /\ Commit(w)
    /\ nexternal' = nexternal + 1
    /\ UNCHANGED <<stream, fed, nunits>>

FeedPeer(tid, u) ==
    /\ PeersAlive
    /\ ~terms[tid].finalized
    /\ nunits < MaxSharedUnits
    /\ Commit(vte_terminal_feed(World, tid, utf8_string(u)))
    /\ nunits' = nunits + 1
    /\ UNCHANGED <<stream, fed, nexternal>>

RealizePeer(tid) ==
    /\ ~terms[tid].realized
    /\ SharedOp(tid, vte_terminal_realize(World, tid))

InvalidatePeer(tid) ==
    SharedOp(tid, vte_invalidate_all(World, tid))

ResetPeer(tid) ==
    SharedOp(tid, vte_terminal_reset(World, tid, TRUE, TRUE))

SetPtyPeer(tid, pty) ==
    /\ terms[tid].pty # pty
    /\ SharedOp(tid, vte_terminal_set_pty(World, tid, pty))

FinalizePeer(tid) ==
    SharedOp(tid, vte_terminal_finalize(World, tid))

\* the child of the terminal writes the stream to its pty
ChildWritePeer(tid) ==
    /\ PeersAlive
    /\ terms[tid].pty_channel
    /\ stream # <<>>
    /\ terms' = [terms EXCEPT ![tid].pty_data = @ \o stream]
    /\ stream' = <<>>
    /\ UNCHANGED <<active_terminals, process_timeout_tag, update_timeout_tag,
                   in_process_timeout, in_update_timeout, free_chunks, pool,
                   fed, nunits, nexternal>>

SharedCallback(w) ==
    /\ PeersAlive
    /\ Commit(w)
    /\ UNCHANGED <<stream, fed, nunits, nexternal>>

IoReadPeer(tid) ==
    /\ terms[tid].pty_input_source
    /\ terms[tid].pty_data # <<>>
    /\ \E r \in {vte_terminal_io_read(World, tid)} :
          SharedCallback(IF r.again THEN r.w ELSE mark_input_source_invalid(r.w, tid))

SharedProcessTimeout ==
    /\ process_timeout_tag # 0
    /\ SharedCallback(process_timeout(World))

SharedUpdateTimeout ==
    /\ update_timeout_tag = 1
    /\ SharedCallback(update_timeout(World))

SharedUpdateRepeatTimeout ==
    /\ update_timeout_tag = 2
    /\ SharedCallback(update_repeat_timeout(World))

NextShared ==
    \/ \E tid \in Peers, u \in SharedUnits : FeedPeer(tid, u)
    \/ \E tid \in Peers : RealizePeer(tid)
    \/ \E tid \in Peers : InvalidatePeer(tid)
    \/ \E tid \in Peers : ResetPeer(tid)
    \/ \E tid \in Peers, pty \in BOOLEAN : SetPtyPeer(tid, pty)
    \/ \E tid \in Peers : FinalizePeer(tid)
    \/ \E tid \in Peers : ChildWritePeer(tid)
    \/ \E tid \in Peers : IoReadPeer(tid)
    \/ SharedProcessTimeout
    \/ SharedUpdateTimeout
    \/ SharedUpdateRepeatTimeout

SpecShared == InitShared /\ [][NextShared]_vars

(***************************************************************************)
(* SpecParse: code points in any order reach the matcher loop: the         *)
(* beginning, the middle and the end of a control sequence, a control      *)
(* character that is a sequence of its own, one that is none, and a        *)
(* character, fed one or two at a time with passes in between.             *)
(***************************************************************************)
EscChar == Head(SeqCUF)
BracketChar == Head(Tail(SeqCUF))
SohChar == 1
ParseAlphabet == { EscChar, BracketChar, Head(SeqBS), SohChar, Head(Tail(Tail(SeqCUF))) }
ParseUnits == { <<a>> : a \in ParseAlphabet } \cup { <<a, b>> : a, b \in ParseAlphabet }

InitParse == InitWith(2, 1, 1, TRUE, TRUE, FALSE, <<>>)

FeedParse(tid, u) ==
    /\ Alive
    /\ nunits < MaxParseUnits
    /\ Commit(vte_terminal_feed(World, tid, utf8_string(u)))
    /\ nunits' = nunits + 1
    /\ UNCHANGED <<stream, fed, nexternal>>

NextParse ==
    \/ \E u \in ParseUnits : FeedParse(1, u)
    \/ ProcessTimeout
    \/ UpdateTimeout
    \/ UpdateRepeatTimeout

SpecParse == InitParse /\ [][NextParse]_vars

(***************************************************************************)
(* SpecRows: output on a screen of one row whose number of rows the        *)
(* application sets to two and back.                                       *)
(***************************************************************************)
RowsUnits == { <<NarrowChar>>, SeqLF }
RowCounts == {1, 2}

InitRows == InitWith(2, 1, 2, TRUE, TRUE, FALSE, <<>>)

SetRows(tid, rows) ==
    /\ Alive
    /\ nexternal < MaxRowsOps
    /\ Commit(vte_terminal_set_size(World, tid, 2, rows))
    /\ nexternal' = nexternal + 1
    /\ UNCHANGED <<stream, fed, nunits>>

NextRows ==
    \/ \E u \in RowsUnits : FeedUpTo(1, u, MaxRowsUnits)
    \/ ProcessTimeout
    \/ UpdateTimeout
    \/ UpdateRepeatTimeout
    \/ \E rows \in RowCounts : SetRows(1, rows)

SpecRows == InitRows /\ [][NextRows]_vars

(***************************************************************************)
(* SpecReset: resets of a terminal that has input waiting, a control       *)
(* sequence begun, bytes for the child queued, a selection, or the         *)
(* alternate screen in use.                                                *)
(***************************************************************************)
ResetUnits == { <<NarrowChar>>, <<EscChar>> }
ScreenNames == {"normal", "alternate"}

InitReset ==
    /\ \E w \in {vte_terminal_set_pty(
                     vte_terminal_init(ZeroWorld, 1, 2, 1, 2, TRUE, TRUE), 1, TRUE)} :
          /\ terms = w.terms
          /\ active_terminals = w.active_terminals
          /\ process_timeout_tag = w.process_timeout_tag
          /\ update_timeout_tag = w.update_timeout_tag
          /\ in_process_timeout = w.in_process_timeout
          /\ in_update_timeout = w.in_update_timeout
          /\ free_chunks = w.free_chunks
          /\ pool = NoPool
    /\ stream = <<>>
    /\ fed = <<>>
    /\ nunits = 0
    /\ nexternal = 0

ResetOp(w) ==
    /\ Alive
    /\ nexternal < MaxResetOps
    /\ Commit(w)
    /\ nexternal' = nexternal + 1
    /\ UNCHANGED <<stream, fed, nunits>>

\* bytes for the child of which the first write() takes none
QueueForChild(tid) ==
    /\ terms[tid].outgoing = <<>>
    /\ ResetOp(vte_terminal_feed_child(World, tid, <<NarrowChar>>, 0))

SelectAllText(tid) ==
    /\ ~terms[tid].has_selection
    /\ ResetOp(vte_terminal_select_all(World, tid))

\* the output of the child switches the screen
SwitchScreen(tid, to) ==
    /\ terms[tid].screen # to
    /\ ResetOp(vte_sequence_handler_screen_switch(World, tid, to))

ResetTerminal(tid, clear_history) ==
    ResetOp(vte_terminal_reset(World, tid, TRUE, clear_history))

NextReset ==
    \/ \E u \in ResetUnits : FeedUpTo(1, u, MaxResetUnits)
    \/ ProcessTimeout
    \/ UpdateTimeout
    \/ UpdateRepeatTimeout
    \/ QueueForChild(1)
    \/ SelectAllText(1)
    \/ \E to \in ScreenNames : SwitchScreen(1, to)
    \/ \E clear_history \in BOOLEAN : ResetTerminal(1, clear_history)

SpecReset == InitReset /\ [][NextReset]_vars

(***************************************************************************)
(* The incoming chunks as objects in memory.  A chunk is an address of     *)
(* Chunks; chunk[a] holds its fields next and len, and allocated tells     *)
(* whether g_new has handed the address out and g_free has not taken it    *)
(* back.  The data of a chunk is left out, its length is kept.  Address 0  *)
(* is NULL.  The pool p holds the memory, the head of the free list and    *)
(* each terminal's pvt->incoming, and three observations: released_twice,  *)
(* set when release_chunk is given a chunk that is on the free list;       *)
(* appended_released, set when bytes are added to a chunk that is on the   *)
(* free list or is not allocated; exhausted, set when g_new has no address *)
(* left in the bounded memory.                                             *)
(***************************************************************************)
NullChunk == 0
PruneLength == 10
Chunks == 1..MaxChunks

ZeroChunk == [next |-> NullChunk, len |-> 0, allocated |-> FALSE]

ZeroPool ==
    [chunk |-> [a \in 0..MaxChunks |-> ZeroChunk],
     free_chunks |-> NullChunk,
     incoming |-> [tid \in Peers |-> NullChunk],
     released_twice |-> FALSE,
     appended_released |-> FALSE,
     exhausted |-> FALSE]

\* the chunks from head on along next, at most fuel of them
RECURSIVE ChunkList(_, _, _)
ChunkList(p, head, fuel) ==
    IF head = NullChunk \/ fuel = 0 THEN <<>>
    ELSE <<head>> \o ChunkList(p, p.chunk[head].next, fuel - 1)

OnList(p, head, a) ==
    \E i \in 1..Len(ChunkList(p, head, MaxChunks)) :
        ChunkList(p, head, MaxChunks)[i] = a

mem_g_new(p) ==
    LET unused == {a \in Chunks : ~p.chunk[a].allocated}
    IN IF unused = {}
       THEN [p |-> [p EXCEPT !.exhausted = TRUE], chunk |-> NullChunk]
       ELSE LET a == CHOOSE a \in unused : \A b \in unused : a <= b
            IN [p |-> [p EXCEPT !.chunk[a].allocated = TRUE], chunk |-> a]

\* g_free; a chunk that is not allocated is left as it is
mem_g_free(p, a) == [p EXCEPT !.chunk[a].allocated = FALSE]

\* gives the pool and the chunk
mem_get_chunk(p) ==
    The({ [p |-> [g.p EXCEPT !.chunk[g.chunk].next = NullChunk,
                             !.chunk[g.chunk].len = 0],
           chunk |-> g.chunk]
          : g \in {IF p.free_chunks # NullChunk
                   THEN [p |-> [p EXCEPT !.free_chunks = p.chunk[p.free_chunks].next],
                         chunk |-> p.free_chunks]
                   ELSE mem_g_new(p)} })

mem_release_chunk(p, chunk) ==
    [p EXCEPT !.released_twice = @ \/ OnList(p, p.free_chunks, chunk),
              !.chunk[chunk].next = p.free_chunks,
              !.chunk[chunk].len = IF p.free_chunks # NullChunk
                                   THEN p.chunk[p.free_chunks].len + 1 ELSE 0,
              !.free_chunks = chunk]

\* "while (chunk != NULL) { next = chunk->next; g_free (chunk); chunk = next; }"
RECURSIVE mem_free_chunks(_, _, _)
mem_free_chunks(p, chunk, fuel) ==
    IF chunk = NullChunk \/ fuel = 0 THEN p
    ELSE mem_free_chunks(mem_g_free(p, chunk), p.chunk[chunk].next, fuel - 1)

\* "while (free_chunks->len > len) { last = free_chunks; free_chunks =
\* free_chunks->next; }": gives last and the new free_chunks
RECURSIVE mem_prune_walk(_, _, _, _, _)
mem_prune_walk(p, head, last, len, fuel) ==
    IF fuel = 0 \/ ~(p.chunk[head].len > len)
    THEN [free_chunks |-> head, last |-> last]
    ELSE mem_prune_walk(p, p.chunk[head].next, head, len, fuel - 1)

mem_prune_chunks(p, len) ==
    IF len # 0 /\ p.free_chunks # NullChunk
    THEN IF p.chunk[p.free_chunks].len > len
         THEN The({ mem_free_chunks(
                        [p EXCEPT !.free_chunks = r.free_chunks,
                                  !.chunk[r.last].next = NullChunk],
                        p.free_chunks, MaxChunks)
                    : r \in {mem_prune_walk(p, p.free_chunks, NullChunk, len,
                                            MaxChunks)} })
         ELSE p
    ELSE mem_free_chunks([p EXCEPT !.free_chunks = NullChunk], p.free_chunks,
                         MaxChunks)

RECURSIVE mem_incoming_chunks_release(_, _, _)
mem_incoming_chunks_release(p, chunk, fuel) ==
    IF chunk = NullChunk \/ fuel = 0 THEN p
    ELSE mem_incoming_chunks_release(mem_release_chunk(p, chunk),
                                     p.chunk[chunk].next, fuel - 1)

\* gives the pool and the head of the reversed list
RECURSIVE mem_incoming_chunks_reverse(_, _, _, _)
mem_incoming_chunks_reverse(p, chunk, prev, fuel) ==
    IF chunk = NullChunk \/ fuel = 0 THEN [p |-> p, chunk |-> prev]
    ELSE mem_incoming_chunks_reverse([p EXCEPT !.chunk[chunk].next = prev],
                                     p.chunk[chunk].next, chunk, fuel - 1)

\* the last chunk of the list at chunks
mem_last_chunk(p, chunks) ==
    LET l == ChunkList(p, chunks, MaxChunks) IN l[Len(l)]

mem_feed_chunks(p, tid, chunks) ==
    [p EXCEPT !.chunk[mem_last_chunk(p, chunks)].next = p.incoming[tid],
              !.incoming[tid] = chunks]

\* len bytes are written behind the data of chunk
mem_append(p, chunk, len) ==
    [p EXCEPT !.chunk[chunk].len = @ + len,
              !.appended_released =
                  @ \/ (len > 0 /\ (OnList(p, p.free_chunks, chunk)
                                   \/ ~p.chunk[chunk].allocated))]

\* "do { memcpy; chunk->len += len; ... chunk = get_chunk ();
\* _vte_terminal_feed_chunks (terminal, chunk); } while (1)"
RECURSIVE mem_feed_loop(_, _, _, _)
mem_feed_loop(p, tid, chunk, length) ==
    LET len == Min(length, ChunkData - p.chunk[chunk].len)
    IN IF p.exhausted THEN p
       ELSE IF length - len = 0 THEN mem_append(p, chunk, len)
       ELSE The({ IF g.p.exhausted THEN g.p
                  ELSE mem_feed_loop(mem_feed_chunks(g.p, tid, g.chunk), tid,
                                     g.chunk, length - len)
                  : g \in {mem_get_chunk(mem_append(p, chunk, len))} })

\* vte_terminal_feed with length bytes of data
mem_feed(p, tid, length) ==
    LET incoming == p.incoming[tid]
    IN IF length > 0
       THEN IF incoming # NullChunk /\ length < ChunkData - p.chunk[incoming].len
            THEN mem_feed_loop(p, tid, incoming, length)
            ELSE The({ IF g.p.exhausted THEN g.p
                       ELSE mem_feed_loop(mem_feed_chunks(g.p, tid, g.chunk), tid,
                                          g.chunk, length)
                       : g \in {mem_get_chunk(p)} })
       ELSE p

\* The loop of vte_terminal_io_read that fills chunks; avail is the number
\* of bytes that read() has to give.  Gives the pool, chunk and chunks.
RECURSIVE mem_io_read_loop(_, _, _, _, _, _, _)
mem_io_read_loop(p, chunk, chunks, avail, bytes, max_bytes, fuel) ==
    The({ LET into == g.chunk
              len == Min(ChunkData - g.p.chunk[into].len, avail)
              p2 == mem_append(g.p, into, len)
          IN IF g.p.exhausted THEN [p |-> g.p, chunk |-> into, chunks |-> g.chunks]
             ELSE IF bytes + len < max_bytes /\ p2.chunk[into].len = ChunkData
                     /\ fuel > 0
             THEN mem_io_read_loop(p2, into, g.chunks, avail - len, bytes + len,
                                   max_bytes, fuel - 1)
             ELSE [p |-> p2, chunk |-> into, chunks |-> g.chunks]
          : g \in {IF chunk = NullChunk
                      \/ p.chunk[chunk].len >= (3 * ChunkData) \div 4
                   THEN The({ [p |-> [n.p EXCEPT !.chunk[n.chunk].next = chunks],
                               chunk |-> n.chunk, chunks |-> n.chunk]
                              : n \in {mem_get_chunk(p)} })
                   ELSE [p |-> p, chunk |-> chunk, chunks |-> chunks]} })

mem_io_read(p, tid, avail, max_bytes) ==
    The({ The({ IF r.p.exhausted THEN r.p
                ELSE IF e.chunks # NullChunk
                THEN mem_feed_chunks(e.p, tid, e.chunks)
                ELSE e.p
                : e \in {IF r.p.chunk[r.chunk].len = 0 /\ r.chunk = r.chunks
                         THEN [p |-> mem_release_chunk(r.p, r.chunk),
                               chunks |-> r.p.chunk[r.chunks].next]
                         ELSE [p |-> r.p, chunks |-> r.chunks]} })
          : r \in {mem_io_read_loop(p, p.incoming[tid], NullChunk, avail, 0,
                                    max_bytes, MaxChunks)} })

\* The loop of vte_terminal_process_incoming over the reversed list.  The
\* decoder leaves the last Head(cuts) bytes of the chunk it is given (all
\* of them when the chunk holds fewer), and none once cuts is used up.
\* Gives the pool, chunk and achunk.
RECURSIVE mem_decode_chunks(_, _, _, _, _)
mem_decode_chunks(p, chunk, achunk, cuts, fuel) ==
    LET next_chunk == p.chunk[chunk].next
        len == p.chunk[chunk].len
        left == IF cuts = <<>> THEN 0 ELSE Min(Head(cuts), len)
        rest == IF cuts = <<>> THEN <<>> ELSE Tail(cuts)
        processed == ChunkData - left
        cached == IF achunk # NullChunk THEN mem_release_chunk(p, achunk) ELSE p
    IN IF chunk = NullChunk \/ fuel = 0
       THEN [p |-> p, chunk |-> chunk, achunk |-> achunk]
       ELSE IF len = 0
       THEN mem_decode_chunks(cached, next_chunk, chunk, cuts, fuel - 1)
       ELSE IF left # 0
       THEN The({ IF processed # 0 /\ next_chunk # NullChunk
                  THEN IF p1.chunk[next_chunk].len <= processed
                       THEN mem_decode_chunks(
                                mem_release_chunk(
                                    [mem_append(p1, chunk, p1.chunk[next_chunk].len)
                                        EXCEPT !.chunk[chunk].next =
                                                   p1.chunk[next_chunk].next],
                                    next_chunk),
                                chunk, achunk, rest, fuel - 1)
                       ELSE mem_decode_chunks(
                                [mem_append(p1, chunk, processed)
                                    EXCEPT !.chunk[next_chunk].len = @ - processed],
                                chunk, achunk, rest, fuel - 1)
                  ELSE [p |-> p1, chunk |-> chunk, achunk |-> achunk]
                  : p1 \in {[p EXCEPT !.chunk[chunk].len = left]} })
       ELSE mem_decode_chunks(cached, next_chunk, chunk, rest, fuel - 1)

mem_process_incoming(p, tid, cuts) ==
    The({ The({ IF d.achunk # NullChunk
                THEN IF d.chunk # NullChunk
                     THEN [mem_release_chunk(d.p, d.achunk)
                              EXCEPT !.incoming[tid] = d.chunk]
                     ELSE [d.p EXCEPT !.chunk[d.achunk].next = NullChunk,
                                      !.chunk[d.achunk].len = 0,
                                      !.incoming[tid] = d.achunk]
                ELSE [d.p EXCEPT !.incoming[tid] = d.chunk]
                : d \in {mem_decode_chunks(r.p, r.chunk, NullChunk, cuts,
                                           3 * MaxChunks)} })
          : r \in {mem_incoming_chunks_reverse(p, p.incoming[tid], NullChunk,
                                               MaxChunks)} })

\* the chunks released and pvt->incoming left pointing at them
mem_reset_incoming_kept(p, tid) ==
    mem_incoming_chunks_release(p, p.incoming[tid], MaxChunks)

\* of vte_terminal_reset: "_vte_incoming_chunks_release (pvt->incoming);
\* pvt->incoming = NULL;"
mem_reset(p, tid) ==
    [mem_incoming_chunks_release(p, p.incoming[tid], MaxChunks)
        EXCEPT !.incoming[tid] = NullChunk]

\* of vte_terminal_set_pty: the last pass and the release of what it left
mem_set_pty(p, tid, cuts) ==
    IF p.incoming[tid] # NullChunk
    THEN The({ [mem_incoming_chunks_release(p1, p1.incoming[tid], MaxChunks)
                   EXCEPT !.incoming[tid] = NullChunk]
               : p1 \in {mem_process_incoming(p, tid, cuts)} })
    ELSE p

(***************************************************************************)
(* SpecChunks: two terminals and the pool of chunks: feeds, reads from the *)
(* pty, passes, resets, set_pty and the pruning of the free list.          *)
(***************************************************************************)
FeedLengths == {1, ChunkData + 1, (PruneLength + 3) * ChunkData}
ReadLengths == {0, 1, ChunkData + 1}
ReadLimits == {1, VTE_MAX_INPUT_READ}
Cuts == {<<>>, <<1>>, <<0, 1>>, <<ChunkData>>}

InitChunks ==
    /\ terms = [tid \in Peers |-> ZeroTerminal]
    /\ active_terminals = ZeroWorld.active_terminals
    /\ process_timeout_tag = ZeroWorld.process_timeout_tag
    /\ update_timeout_tag = ZeroWorld.update_timeout_tag
    /\ in_process_timeout = ZeroWorld.in_process_timeout
    /\ in_update_timeout = ZeroWorld.in_update_timeout
    /\ free_chunks = ZeroWorld.free_chunks
    /\ pool = ZeroPool
    /\ stream = <<>>
    /\ fed = <<>>
    /\ nunits = 0
    /\ nexternal = 0

\* a step that changes the chunks alone, when memory sufficed for it
PoolOp(p) ==
    /\ nexternal < MaxPoolOps
    /\ ~p.exhausted
    /\ pool' = p
    /\ nexternal' = nexternal + 1
    /\ UNCHANGED <<terms, active_terminals, process_timeout_tag, update_timeout_tag,
                   in_process_timeout, in_update_timeout, free_chunks,
                   stream, fed, nunits>>

FeedPool(tid, length) == PoolOp(mem_feed(pool, tid, length))

IoReadPool(tid, avail, max_bytes) ==
    PoolOp(mem_io_read(pool, tid, avail, max_bytes))

ProcessPool(tid, cuts) ==
    /\ pool.incoming[tid] # NullChunk
    /\ PoolOp(mem_process_incoming(pool, tid, cuts))

ResetPool(tid) == PoolOp(mem_reset(pool, tid))

SetPtyPool(tid, cuts) == PoolOp(mem_set_pty(pool, tid, cuts))

\* the end of a timer callback that has no more work
PrunePool ==
    /\ pool' = mem_prune_chunks(pool, PruneLength)
    /\ UNCHANGED <<terms, active_terminals, process_timeout_tag, update_timeout_tag,
                   in_process_timeout, in_update_timeout, free_chunks,
                   stream, fed, nunits, nexternal>>

NextChunks ==
    \/ \E tid \in Peers, length \in FeedLengths : FeedPool(tid, length)
    \/ \E tid \in Peers, avail \in ReadLengths, max_bytes \in ReadLimits :
          IoReadPool(tid, avail, max_bytes)
    \/ \E tid \in Peers, cuts \in Cuts : ProcessPool(tid, cuts)
    \/ \E tid \in Peers : ResetPool(tid)
    \/ \E tid \in Peers, cuts \in Cuts : SetPtyPool(tid, cuts)
    \/ PrunePool

SpecChunks == InitChunks /\ [][NextChunks]_vars

(***************************************************************************)
(* The pipeline: order of the bytes and deferred processing.               *)
(***************************************************************************)

WholeCharacters(bytes) ==
    bytes # <<>> /\ iso2022_process(bytes).processed = Len(bytes)

\* C2: bytes that vte_terminal_feed (or a pty read) has accepted are
\* consumed by a later pass of vte_terminal_process_incoming, with no
\* further feed or read needed, whatever visibility changes, invalidations
\* and timer callbacks come between, the scheduled timers firing.  As a
\* property of the states: while accepted whole characters wait in the
\* chunks, a timer whose callback runs the pass is scheduled; when no
\* timer is left, nothing waits.
C2_AcceptedBytesConsumed ==
    \A tid \in Terminals :
        WholeCharacters(QueuedBytes(terms[tid])) =>
            (process_timeout_tag # 0 \/ update_timeout_tag # 0)

\* the step is a call of vte_terminal_feed
FeedStep == stream' # stream /\ fed' # fed

\* C3: vte_terminal_feed runs no handler and inserts nothing itself: when
\* it returns, the screens (cursor and grid) and the pending characters
\* are as before, the bytes are in the incoming chunks and nowhere else,
\* and the deferred pass is scheduled (the terminal is on the active list
\* and a timer is set).
C3_FeedDefers ==
    [][FeedStep =>
        \A tid \in Terminals :
            /\ terms'[tid].normal_screen = terms[tid].normal_screen
            /\ terms'[tid].alternate_screen = terms[tid].alternate_screen
            /\ terms'[tid].pending = terms[tid].pending
            /\ terms'[tid].log_handled = terms[tid].log_handled
            /\ terms'[tid].log_consumed = terms[tid].log_consumed
            /\ QueuedBytes(terms'[tid]) =
                   QueuedBytes(terms[tid]) \o SubSeq(stream, 1, Len(stream) - Len(stream'))
            /\ terms'[tid].active
            /\ tid \in {active_terminals'[i] : i \in 1..Len(active_terminals')}
            /\ (process_timeout_tag' # 0 \/ update_timeout_tag' # 0)]_vars

\* bytes were fed to an idle terminal: they wait, nothing is decoded, and
\* the process timer has been started for them
C3_Witness ==
    /\ ~terms[1].pty_channel
    /\ QueuedBytes(terms[1]) = fed
    /\ fed # <<>>
    /\ terms[1].log_consumed = <<>>
    /\ process_timeout_tag # 0
    /\ terms[1].active

(***************************************************************************)
(* The scroll position.                                                    *)
(***************************************************************************)

\* C4: after every public mutation (a pass, a resize, a change of the
\* scrollback, a reset, a scroll by the user) the screen has
\* delta() <= scroll_delta <= insert_delta.
C4_ScrollDeltaInRange ==
    \A tid \in Terminals :
        LET s == TScr(World, tid)
        IN ~terms[tid].crashed =>
            /\ ring_delta(s.row_data) <= s.scroll_delta
            /\ s.scroll_delta <= s.insert_delta

\* C5: after every public mutation
\* insert_delta <= next() - min(row_count, next() - delta()).
C5_InsertDeltaBound ==
    \A tid \in Terminals :
        LET s == TScr(World, tid)
            n == ring_next(s.row_data)
        IN ~terms[tid].crashed =>
            s.insert_delta <= n - Min(terms[tid].row_count, n - ring_delta(s.row_data))

(***************************************************************************)
(* The grid.                                                               *)
(***************************************************************************)
\* the rows the ring of the active screen retains
RingRows(tid) == TScr(World, tid).row_data.rows

\* C6: after every public mutation every primary cell of a wide character
\* (columns = 2, at column c) is followed by a cell at c + 1 that has
\* columns = 2, is a fragment and holds the same unistr.
C6_WideCellsPaired ==
    \A tid \in Terminals : \A i \in 1..Len(RingRows(tid)) :
        LET row == RingRows(tid)[i]
        IN \A c \in 0..(row_data_length(row) - 1) :
               LET cell == row_data_get(row, c)
               IN (cell.columns = 2 /\ ~cell.fragment) =>
                      /\ HasCell(row, c + 1)
                      /\ row_data_get(row, c + 1).columns = 2
                      /\ row_data_get(row, c + 1).fragment
                      /\ row_data_get(row, c + 1).c = cell.c

\* C7: after every public mutation every row the ring retains holds at
\* most column_count cells, also after a resize has reduced column_count.
C7_RowsWithinWidth ==
    \A tid \in Terminals : \A i \in 1..Len(RingRows(tid)) :
        row_data_length(RingRows(tid)[i]) <= terms[tid].column_count

\* C8: after every public mutation every row with soft_wrapped set holds
\* cells for all column_count columns.
C8_SoftWrappedRowsFull ==
    \A tid \in Terminals : \A i \in 1..Len(RingRows(tid)) :
        RingRows(tid)[i].soft_wrapped =>
            row_data_length(RingRows(tid)[i]) >= terms[tid].column_count

\* the row at ring index i of the active screen, in this state and the next
RowNow(tid, i) == ring_index(Scr(terms[tid]).row_data, i)
RowNext(tid, i) == ring_index(Scr(terms'[tid]).row_data, i)

\* C7 as amended: no step makes a row longer than column_count.  A row
\* the step creates or lengthens holds at most column_count cells
\* afterwards; a row holds more only if it held them before, which is
\* what a resize to fewer columns leaves behind.
C7_RowsNeverGrowPastWidth ==
    [][\A tid \in Terminals :
          LET ring1 == Scr(terms[tid]).row_data
              ring2 == Scr(terms'[tid]).row_data
          IN \A i \in ring_delta(ring2)..(ring_next(ring2) - 1) :
                 \/ row_data_length(RowNext(tid, i)) <= terms'[tid].column_count
                 \/ /\ ring_contains(ring1, i)
                    /\ row_data_length(RowNext(tid, i)) <= row_data_length(RowNow(tid, i))]_vars

\* a resize to fewer columns has left a row of three cells in a grid of
\* two columns, and the terminal has worked on after it
C7_Witness ==
    /\ terms[1].column_count = 2
    /\ nexternal = 1
    /\ \E i \in 1..Len(RingRows(1)) : row_data_length(RingRows(1)[i]) = 3
    /\ TScr(World, 1).cursor_current.col < 2

(***************************************************************************)
(* Single characters.  A pass that handles exactly the unit u: its bytes   *)
(* are all that waits, nothing is pending, and the step consumes them.     *)
(***************************************************************************)
PassOf(tid, u) ==
    /\ QueuedBytes(terms[tid]) = utf8_string(u)
    /\ terms[tid].pending = <<>>
    /\ QueuedBytes(terms'[tid]) = <<>>
    /\ terms'[tid].pending = <<>>
    /\ nexternal' = nexternal
    /\ ~terms'[tid].crashed

\* C9: a combining mark is merged only into a cell that is not a
\* fragment, has columns >= 1 and holds a non-zero character; otherwise
\* the mark is dropped and no cell changes.  So every cell that a pass
\* handling one mark changes belongs to a character whose first cell was
\* such a cell before the pass.
C9_MarkOnlyOnCharacter ==
    [][\A tid \in Terminals :
          PassOf(tid, <<MarkChar>>) =>
              LET ring1 == Scr(terms[tid]).row_data
                  ring2 == Scr(terms'[tid]).row_data
              IN \A i \in ring_delta(ring1)..(ring_next(ring1) - 1) :
                     ring_contains(ring2, i) =>
                         /\ row_data_length(RowNext(tid, i)) = row_data_length(RowNow(tid, i))
                         /\ \A c \in 0..(row_data_length(RowNow(tid, i)) - 1) :
                                row_data_get(RowNext(tid, i), c) # row_data_get(RowNow(tid, i), c) =>
                                    LET first == row_data_get(RowNow(tid, i),
                                                              FragmentStart(RowNow(tid, i), c))
                                    IN /\ ~first.fragment
                                       /\ first.columns >= 1
                                       /\ first.c # <<NulChar>>]_vars

\* the cursor's row, when the ring has it
CursorRowHas(t) == ring_contains(Scr(t).row_data, Scr(t).cursor_current.row)
CursorRow(t) == ring_index(Scr(t).row_data, Scr(t).cursor_current.row)

\* C10: with am and xn set, a character written into the last column
\* leaves the cursor on its row, past the last column, and the row not
\* soft-wrapped; a unit that prints nothing leaves the row so; the next
\* printable character marks the row soft-wrapped and is put at column 0
\* of the following row.
C10_WrapDeferredWithXn ==
    [][\A tid \in Terminals :
          LET t == terms[tid]
              t2 == terms'[tid]
              cur == Scr(t).cursor_current
              cur2 == Scr(t2).cursor_current
          IN (t.flags_am /\ t.flags_xn) =>
              /\ \A ch \in {NarrowChar, WideChar} :
                    PassOf(tid, <<ch>>) =>
                        /\ cur.col + unichar_width(ch) = t.column_count =>
                               /\ cur2.row = cur.row
                               /\ cur2.col = t.column_count
                               /\ CursorRowHas(t2)
                               /\ ~CursorRow(t2).soft_wrapped
                               /\ row_data_get(CursorRow(t2), cur.col).c = <<ch>>
                        /\ cur.col >= t.column_count =>
                               /\ cur2.row = cur.row + 1
                               /\ cur2.col = unichar_width(ch)
                               /\ CursorRowHas(t2)
                               /\ row_data_get(CursorRow(t2), 0).c = <<ch>>
                               /\ ring_contains(Scr(t2).row_data, cur.row) =>
                                      ring_index(Scr(t2).row_data, cur.row).soft_wrapped
              /\ \A u \in {<<MarkChar>>, SeqCR, SeqBS, SeqCUF, SeqIRMOn} :
                    (PassOf(tid, u) /\ cur.col >= t.column_count /\ CursorRowHas(t)) =>
                        /\ ring_contains(Scr(t2).row_data, cur.row)
                        /\ ~ring_index(Scr(t2).row_data, cur.row).soft_wrapped]_vars

\* after a character in the last column, the next one has wrapped: the row
\* before the cursor's is full and soft-wrapped, the character is at
\* column 0 of the cursor's row
C10_Witness ==
    /\ terms[1].flags_am /\ terms[1].flags_xn
    /\ nexternal = 0
    /\ CursorRowHas(terms[1])
    /\ Scr(terms[1]).cursor_current.col = 1
    /\ row_data_length(CursorRow(terms[1])) = 1
    /\ row_data_get(CursorRow(terms[1]), 0).c = <<NarrowChar>>
    /\ ring_contains(Scr(terms[1]).row_data, Scr(terms[1]).cursor_current.row - 1)
    /\ LET prev == ring_index(Scr(terms[1]).row_data, Scr(terms[1]).cursor_current.row - 1)
       IN /\ prev.soft_wrapped
          /\ row_data_length(prev) = terms[1].column_count
          /\ \A c \in 0..(row_data_length(prev) - 1) : row_data_get(prev, c).c = <<NarrowChar>>

(***************************************************************************)
(* Wrapping at the right margin.                                           *)
(***************************************************************************)
\* the wide character sits whole at columns 0 and 1 of the row at ring
\* index i of the screen of t
WideAtStart(t, i) ==
    /\ ring_contains(Scr(t).row_data, i)
    /\ LET row == ring_index(Scr(t).row_data, i)
       IN /\ HasCell(row, 1)
          /\ row_data_get(row, 0).c = <<WideChar>>
          /\ row_data_get(row, 0).columns = 2
          /\ ~row_data_get(row, 0).fragment
          /\ row_data_get(row, 1).c = <<WideChar>>
          /\ row_data_get(row, 1).columns = 2
          /\ row_data_get(row, 1).fragment

\* the row at ring index i is soft-wrapped, if the ring still has it
SoftWrappedIfKept(t, i) ==
    ring_contains(Scr(t).row_data, i) => ring_index(Scr(t).row_data, i).soft_wrapped

\* a pass handles one wide character that does not fit behind the cursor
WideOverMargin(tid) ==
    /\ PassOf(tid, <<WideChar>>)
    /\ terms[tid].flags_am
    /\ Scr(terms[tid]).cursor_current.col + 2 > terms[tid].column_count

\* C11: with autowrap on, a wide character that does not fit in the
\* columns left of the row is not split or cut: the row is marked
\* soft-wrapped, the character takes columns 0 (primary) and 1 (fragment)
\* of the next row, and the cursor ends at column 2 of that row.
C11_WideWrapsWhole ==
    [][\A tid \in Terminals :
          WideOverMargin(tid) =>
              LET cur == Scr(terms[tid]).cursor_current
                  cur2 == Scr(terms'[tid]).cursor_current
              IN /\ SoftWrappedIfKept(terms'[tid], cur.row)
                 /\ WideAtStart(terms'[tid], cur.row + 1)
                 /\ cur2 = [row |-> cur.row + 1, col |-> 2]]_vars

\* C11 as amended: in a grid of two columns without xn the character
\* fills its row, so the wrap after the character follows at once: that
\* row is soft-wrapped too and the cursor ends at column 0 of the row
\* after it.  In every other grid of two or more columns the cursor ends
\* at column 2 of the character's row.
C11_WideWrapsWholeThenMayWrap ==
    [][\A tid \in Terminals :
          (WideOverMargin(tid) /\ terms[tid].column_count >= 2) =>
              LET cur == Scr(terms[tid]).cursor_current
                  cur2 == Scr(terms'[tid]).cursor_current
              IN /\ SoftWrappedIfKept(terms'[tid], cur.row)
                 /\ WideAtStart(terms'[tid], cur.row + 1)
                 /\ IF terms[tid].column_count = 2 /\ ~terms[tid].flags_xn
                    THEN /\ cur2 = [row |-> cur.row + 2, col |-> 0]
                         /\ ring_index(Scr(terms'[tid]).row_data, cur.row + 1).soft_wrapped
                    ELSE cur2 = [row |-> cur.row + 1, col |-> 2]]_vars

\* in a grid of three columns "aa" and then the wide character: the row
\* before the cursor's holds the two cells and is soft-wrapped, the
\* character is at the start of the cursor's row, the cursor behind it
C11_Witness ==
    /\ terms[1].column_count = 3 /\ terms[1].flags_am
    /\ nexternal = 0
    /\ Scr(terms[1]).cursor_current.col = 2
    /\ WideAtStart(terms[1], Scr(terms[1]).cursor_current.row)
    /\ ring_contains(Scr(terms[1]).row_data, Scr(terms[1]).cursor_current.row - 1)
    /\ LET prev == ring_index(Scr(terms[1]).row_data, Scr(terms[1]).cursor_current.row - 1)
       IN /\ prev.soft_wrapped
          /\ row_data_length(prev) = 2
          /\ row_data_get(prev, 1).c = <<NarrowChar>>

\* C12: with autowrap on and xn not set, a write that advances the cursor
\* to column_count marks the row soft-wrapped and moves the cursor to
\* column 0 of the next row by the cursor-down primitive (in a grid
\* without scrolling region: one row down); the character is in the row
\* it was written to.
C12_WrapAtMarginWithoutXn ==
    [][\A tid \in Terminals : \A ch \in {NarrowChar, WideChar} :
          LET t == terms[tid]
              t2 == terms'[tid]
              cur == Scr(t).cursor_current
          IN (/\ PassOf(tid, <<ch>>)
              /\ t.flags_am /\ ~t.flags_xn
              /\ cur.col + unichar_width(ch) = t.column_count) =>
                 /\ Scr(t2).cursor_current = [row |-> cur.row + 1, col |-> 0]
                 /\ CursorRowHas(t2)
                 /\ ring_contains(Scr(t2).row_data, cur.row) =>
                        LET row == ring_index(Scr(t2).row_data, cur.row)
                        IN /\ row.soft_wrapped
                           /\ row_data_length(row) = t.column_count
                           /\ row_data_get(row, cur.col).c = <<ch>>]_vars

\* without xn the character that fills the row has wrapped at once: the
\* cursor is at column 0 of a row that holds nothing yet, the row before
\* it is full and soft-wrapped
C12_Witness ==
    /\ terms[1].flags_am /\ ~terms[1].flags_xn
    /\ nexternal = 0
    /\ CursorRowHas(terms[1])
    /\ Scr(terms[1]).cursor_current.col = 0
    /\ row_data_length(CursorRow(terms[1])) = 0
    /\ ring_contains(Scr(terms[1]).row_data, Scr(terms[1]).cursor_current.row - 1)
    /\ LET prev == ring_index(Scr(terms[1]).row_data, Scr(terms[1]).cursor_current.row - 1)
       IN /\ prev.soft_wrapped
          /\ row_data_length(prev) = terms[1].column_count
          /\ \A c \in 0..(row_data_length(prev) - 1) : row_data_get(prev, c).c = <<NarrowChar>>

(***************************************************************************)
(* Line feeds in a scrolling region.  The statements are about the line    *)
(* feed itself: in every state the terminal reaches, what the handler of   *)
(* LF makes of that state.                                                 *)
(***************************************************************************)
\* the cursor is on the bottom row of the restricted scrolling region
AtRegionBottom(tid) ==
    /\ ~terms[tid].crashed
    /\ Scr(terms[tid]).scrolling_restricted
    /\ Scr(terms[tid]).cursor_current.row =
           Scr(terms[tid]).insert_delta + Scr(terms[tid]).scrolling_region.end

RegionTop(tid) == Scr(terms[tid]).insert_delta + Scr(terms[tid]).scrolling_region.start
RegionBottom(tid) == Scr(terms[tid]).insert_delta + Scr(terms[tid]).scrolling_region.end

\* a row as _vte_buffer_ring_insert fills it
FilledRow(t) ==
    [cells |-> [i \in 1..t.column_count |-> Scr(t).fill_defaults],
     soft_wrapped |-> FALSE]

\* w2 is the world after a line feed that scrolled the region of the
\* screen without touching the history
RegionScrolled(tid, w2) ==
    LET s == Scr(terms[tid])
        s2 == TScr(w2, tid)
        top == RegionTop(tid)
        bottom == RegionBottom(tid)
    IN /\ ~w2.terms[tid].crashed
       /\ ring_length(s2.row_data) = ring_length(s.row_data)
       /\ ring_delta(s2.row_data) = ring_delta(s.row_data)
       /\ s2.insert_delta = s.insert_delta
       /\ \A i \in ring_delta(s.row_data)..(ring_next(s.row_data) - 1) :
              /\ (i < top \/ i > bottom) =>
                     /\ ring_contains(s2.row_data, i)
                     /\ ring_index(s2.row_data, i) = ring_index(s.row_data, i)
              /\ (i > top /\ i <= bottom) =>
                     /\ ring_contains(s2.row_data, i - 1)
                     /\ ring_index(s2.row_data, i - 1) = ring_index(s.row_data, i)
       /\ ring_contains(s2.row_data, bottom)
       /\ ring_index(s2.row_data, bottom) = FilledRow(terms[tid])

\* C13: a line feed with the cursor on the bottom row of a restricted
\* scrolling region leaves the ring size and delta() unchanged, does not
\* move insert_delta, removes the region's top row (the rows below it in
\* the region move up, a filled row is the new bottom row) and leaves the
\* rows outside the region unchanged.
C13_RegionLineFeedKeepsRing ==
    \A tid \in Terminals :
        AtRegionBottom(tid) =>
            \E w2 \in {vte_sequence_handler_do(World, tid)} : RegionScrolled(tid, w2)

\* C13 as amended: so it is for a region that does not start at visible
\* row 0 and whose rows the ring holds.
C13_InnerRegionLineFeedKeepsRing ==
    \A tid \in Terminals :
        (/\ AtRegionBottom(tid)
         /\ Scr(terms[tid]).scrolling_region.start > 0
         /\ ring_contains(Scr(terms[tid]).row_data, RegionTop(tid))
         /\ ring_contains(Scr(terms[tid]).row_data, RegionBottom(tid))) =>
            \E w2 \in {vte_sequence_handler_do(World, tid)} : RegionScrolled(tid, w2)

\* a line feed has scrolled the region of rows 1..2: the row written
\* before it is the region's top row, the bottom row is a filled row, the
\* row above the region holds its character
C13_Witness ==
    /\ AtRegionBottom(1)
    /\ Scr(terms[1]).scrolling_region = [start |-> 1, end |-> 2]
    /\ Scr(terms[1]).insert_delta = 0
    /\ Scr(terms[1]).row_data.delta = 0
    /\ ring_length(Scr(terms[1]).row_data) = 3
    /\ HasCell(ring_index(Scr(terms[1]).row_data, 0), 0)
    /\ row_data_get(ring_index(Scr(terms[1]).row_data, 0), 0).c = <<NarrowChar>>
    /\ row_data_length(ring_index(Scr(terms[1]).row_data, 1)) = 2
    /\ row_data_get(ring_index(Scr(terms[1]).row_data, 1), 1).c = <<NarrowChar>>
    /\ ring_index(Scr(terms[1]).row_data, 2) = FilledRow(terms[1])

\* C14: when the scrolling region starts at visible row 0 and the cursor
\* is on the region's bottom line, a line feed pushes the top visible row
\* into the history: insert_delta, scroll_delta and cursor.row each grow
\* by exactly one, and a new row is inserted at the new cursor row (the
\* rows that were there move down by one).
C14_RegionAtTopScrollsHistory ==
    \A tid \in Terminals :
        (AtRegionBottom(tid) /\ Scr(terms[tid]).scrolling_region.start = 0) =>
            \E w2 \in {vte_sequence_handler_do(World, tid)} :
                LET s == Scr(terms[tid])
                    s2 == TScr(w2, tid)
                    row == s.cursor_current.row + 1
                IN /\ ~w2.terms[tid].crashed
                   /\ s2.insert_delta = s.insert_delta + 1
                   /\ s2.scroll_delta = s.scroll_delta + 1
                   /\ s2.cursor_current = [row |-> row, col |-> s.cursor_current.col]
                   /\ ring_contains(s2.row_data, row)
                   /\ ring_index(s2.row_data, row) = EmptyRow
                   /\ \A i \in ring_delta(s.row_data)..(ring_next(s.row_data) - 1) :
                          /\ (i < row /\ ring_contains(s2.row_data, i)) =>
                                 ring_index(s2.row_data, i) = ring_index(s.row_data, i)
                          /\ i >= row =>
                                 /\ ring_contains(s2.row_data, i + 1)
                                 /\ ring_index(s2.row_data, i + 1) = ring_index(s.row_data, i)

\* a line feed at the bottom of the region of rows 0..1 has pushed the
\* row with the character into the history: the visible area begins
\* below it and the cursor is on the new, empty bottom row of the region
C14_Witness ==
    /\ AtRegionBottom(1)
    /\ Scr(terms[1]).scrolling_region = [start |-> 0, end |-> 1]
    /\ Scr(terms[1]).insert_delta = 1
    /\ Scr(terms[1]).scroll_delta = 1
    /\ ring_contains(Scr(terms[1]).row_data, 0)
    /\ HasCell(ring_index(Scr(terms[1]).row_data, 0), 0)
    /\ row_data_get(ring_index(Scr(terms[1]).row_data, 0), 0).c = <<NarrowChar>>
    /\ CursorRowHas(terms[1])
    /\ CursorRow(terms[1]) = EmptyRow

(***************************************************************************)
(* Overstrike.  The statements are about the insertion itself: in every    *)
(* state the terminal reaches, what insert(c), backspace, insert(c) make   *)
(* of that state, compared with what one insert(c) makes of it.            *)
(***************************************************************************)
\* the screen after insert(c)
InsertedOnce(tid, c) ==
    TScr(vte_terminal_insert_char(World, tid, c, FALSE), tid)

\* the screen after insert(c), backspace, insert(c)
Overstruck(tid, c) ==
    TScr(vte_terminal_insert_char(
             vte_sequence_handler_le(
                 vte_terminal_insert_char(World, tid, c, FALSE), tid),
             tid, c, FALSE), tid)

\* the column insert(c) writes a character of one column to
WriteColumn(t) ==
    IF Scr(t).cursor_current.col + 1 > t.column_count
    THEN IF t.flags_am THEN 0 ELSE t.column_count - 1
    ELSE Scr(t).cursor_current.col

\* C15: overstrike idempotence.  For any character c other than '_' (the
\* ul capability is off), insert(c), backspace, insert(c) leave the grid
\* (cells, row flags, cursor) as a single insert(c) leaves it, at every
\* cursor position, the right margin included.
C15_OverstrikeIdempotent ==
    \A tid \in Terminals : \A c \in {NarrowChar, WideChar, MarkChar} :
        ~terms[tid].crashed => Overstruck(tid, c) = InsertedOnce(tid, c)

\* C15 as amended: so it is for a character of one column written with
\* insert mode off, unless the first insert(c) wraps behind the character
\* (am without xn, the character in the last column).
C15_NarrowOverstrikeIdempotent ==
    \A tid \in Terminals :
        (/\ ~terms[tid].crashed
         /\ ~Scr(terms[tid]).insert_mode
         /\ ~(/\ terms[tid].flags_am /\ ~terms[tid].flags_xn
              /\ WriteColumn(terms[tid]) + 1 >= terms[tid].column_count)) =>
            Overstruck(tid, NarrowChar) = InsertedOnce(tid, NarrowChar)

\* with am and xn, "aa", backspace, "a" in a grid of two columns: the row
\* is full, not wrapped, and the cursor waits behind the last column
C15_Witness ==
    /\ terms[1].flags_am /\ terms[1].flags_xn
    /\ terms[1].column_count = 2
    /\ nunits = 4 /\ nexternal = 0
    /\ ~Scr(terms[1]).insert_mode
    /\ Scr(terms[1]).cursor_current = [row |-> 0, col |-> 2]
    /\ CursorRowHas(terms[1])
    /\ ~CursorRow(terms[1]).soft_wrapped
    /\ row_data_length(CursorRow(terms[1])) = 2
    /\ \A k \in 0..1 : row_data_get(CursorRow(terms[1]), k).c = <<NarrowChar>>

(***************************************************************************)
(* C16.  The reference of a lookup: the projection of the screen as it is, *)
(* the byte of the character under the pointer, the line around it (from   *)
(* the byte after a newline to the next newline), and the first regex in   *)
(* index order, holes skipped, one of whose matches holds that byte.       *)
(***************************************************************************)
PointerOffsets(p, column, row) ==
    { o \in 0..(Len(p.str) - 1) :
        /\ p.attrs[o + 1].row = row
        /\ p.attrs[o + 1].column = column
        /\ ~g_ascii_isspace(p.str[o + 1]) }

LineStart(s, off) == MaxOf({ x \in 0..off : x = 0 \/ s[x] = NewlineByte })
LineEnd(s, off) == MinOf({ x \in off..Len(s) : x = Len(s) \/ s[x + 1] = NewlineByte })

Holding(regex, line, ko) ==
    { m \in { g_regex_match_full(regex, line, 0)[i]
              : i \in 1..Len(g_regex_match_full(regex, line, 0)) } :
        ko >= m.rm_so /\ ko < m.rm_eo }

FirstHolding(regs, line, ko) ==
    LET cands == { i \in 1..Len(regs) :
                     regs[i].tag >= 0 /\ Holding(regs[i].regex, line, ko) # {} }
    IN IF cands = {} THEN [ret |-> NullStr, tag |-> -1]
       ELSE [ret |-> Str(regs[MinOf(cands)].regex), tag |-> regs[MinOf(cands)].tag]

\* what a lookup at the column and the absolute row is to answer
Registered(t, column, row) ==
    LET p == vte_terminal_get_text(t)
        offs == PointerOffsets(p, column, row)
        ls == LineStart(p.str, MaxOf(offs))
        le == LineEnd(p.str, MaxOf(offs))
    IN IF offs = {} THEN [ret |-> NullStr, tag |-> -1]
       ELSE FirstHolding(t.match_regexes, SubSeq(p.str, ls + 1, le), MaxOf(offs) - ls)

Answer(c) == [ret |-> c.ret, tag |-> c.tag]

\* C16: in every state, vte_terminal_match_check at any cell of the screen
\* returns the text and the tag of the first regex, in the order of the
\* table with the holes skipped, that has a match holding the character
\* under the pointer, and returns no match only when no regex has one.
C16_MatchCheckFirstRegistered ==
    \A column \in MatchColumns, row \in MatchRows :
        Answer(vte_terminal_match_check(World, 1, column, row))
            = Registered(terms[1], column, row + Scr(terms[1]).scroll_delta)

\* the same of the lookup proper, which the last match does not answer
MatchCheckInternalRegistered ==
    \A column \in MatchColumns, row \in MatchRows :
        \E c \in {vte_terminal_match_check_internal(
                      World, 1, column, row + Scr(terms[1]).scroll_delta)} :
            [ret |-> c.r.result, tag |-> c.r.tag]
                = Registered(terms[1], column, row + Scr(terms[1]).scroll_delta)

(***************************************************************************)
(* C17.  Two calls of vte_terminal_match_check in a row, the second at     *)
(* another cell of the match that the lookup proper finds at the first.    *)
(***************************************************************************)
\* the cell lies in the range that the last lookup for the pointer stored
InLastMatch(t, column, row) ==
    LET at == <<row, column>>
        from == <<t.match_start.row, t.match_start.col>>
        to == <<t.match_end.row, t.match_end.col>>
        Before(a, b) == a[1] < b[1] \/ (a[1] = b[1] /\ a[2] <= b[2])
    IN Before(from, at) /\ Before(at, to)

\* the lookup proper finds one match at both cells
SameMatch(w, column1, row1, column2, row2) ==
    \E r1 \in {vte_terminal_match_check_internal(w, 1, column1, row1).r},
       r2 \in {vte_terminal_match_check_internal(w, 1, column2, row2).r} :
        /\ ~r1.result.null
        /\ r2 = [r1 EXCEPT !.runs = r2.runs]

\* the pairs of calls of the claim: the first returns a match, the second
\* is at another cell of it
SecondChecks ==
    { p \in [c1 : {vte_terminal_match_check(World, 1, column, row)
                   : column \in MatchColumns, row \in MatchRows},
             at1 : MatchColumns \X MatchRows,
             at2 : MatchColumns \X MatchRows] :
        /\ p.c1 = vte_terminal_match_check(World, 1, p.at1[1], p.at1[2])
        /\ ~p.c1.ret.null
        /\ p.at1 # p.at2
        /\ SameMatch(World, p.at1[1], p.at1[2] + Scr(terms[1]).scroll_delta,
                     p.at2[1], p.at2[2] + Scr(terms[1]).scroll_delta) }

ProjectionCurrent(t) ==
    \/ t.match_contents.null /\ t.match_attributes = <<>>
    \/ /\ ~t.match_contents.null
       /\ t.match_contents.str = vte_terminal_get_text(t).str
       /\ t.match_attributes = vte_terminal_get_text(t).attrs

\* a lookup in w at any cell scans the text of the screen as it is in w,
\* and answers from it
LookupsCurrent(w) ==
    \A column \in MatchColumns, row \in MatchRows :
        \E c \in {vte_terminal_match_check_internal(
                      w, 1, column, row + TScr(w, 1).scroll_delta)} :
            /\ c.w.terms[1].match_contents = Str(vte_terminal_get_text(w.terms[1]).str)
            /\ [ret |-> c.r.result, tag |-> c.r.tag]
                   = Registered(w.terms[1], column, row + TScr(w, 1).scroll_delta)

\* C18: a step in which contents-changed is emitted leaves no projection, or
\* one built from the screen as the step leaves it, so that the next lookup
\* that scans the projection scans the text of the current screen and none
\* captured before the step.
C18_ContentsChangedInvalidates ==
    [][terms'[1].log_contents_changed # terms[1].log_contents_changed
           => /\ ProjectionCurrent(terms'[1])
              /\ LookupsCurrent([World EXCEPT !.terms = terms'])]_vars

\* contents-changed has been emitted twice, and the projection kept after
\* it, of two bytes or more, is the text of the current screen
C18_Witness ==
    /\ terms[1].log_contents_changed >= 2
    /\ ~terms[1].match_contents.null
    /\ Len(terms[1].match_contents.str) >= 2
    /\ ProjectionCurrent(terms[1])

(***************************************************************************)
(* C19.  The match table under vte_terminal_match_add_gregex and           *)
(* vte_terminal_match_remove, applied to the table of every state.         *)
(***************************************************************************)
Table(w) == w.terms[1].match_regexes
Holes(regs) == { i \in 1..Len(regs) : regs[i].tag = -1 }

\* a registered regex has its index as its tag
TagsAreIndexes(regs) ==
    \A i \in 1..Len(regs) : regs[i].tag = -1 \/ regs[i].tag = i - 1

\* removing the tag makes a hole of its slot and of no other
RemoveMakesHole(w, tag) ==
    \E regs \in {Table(w)}, after \in {Table(vte_terminal_match_remove(w, 1, tag))} :
        /\ Len(after) = Len(regs)
        /\ \A i \in 1..Len(regs) :
              IF i = tag + 1 THEN after[i].tag = -1 ELSE after[i] = regs[i]

\* adding a regex fills the lowest hole, or extends the table when it has
\* none, and changes no other slot
AddReusesHole(w, regex) ==
    \E regs \in {Table(w)}, after \in {Table(vte_terminal_match_add_gregex(w, 1, regex))} :
        \E at \in {IF Holes(regs) = {} THEN Len(regs) + 1 ELSE MinOf(Holes(regs))} :
            /\ Len(after) = IF Holes(regs) = {} THEN Len(regs) + 1 ELSE Len(regs)
            /\ after[at] = [regex |-> regex, tag |-> at - 1]
            /\ \A i \in 1..Len(regs) : i # at => after[i] = regs[i]

\* C19: in every state a registered regex has its index as its tag; a
\* vte_terminal_match_remove makes a hole of the slot of its tag and leaves
\* every other slot as it is, and a vte_terminal_match_add_gregex puts the
\* regex in the lowest hole, extending the table only when it has no hole.
C19_TagsStable ==
    /\ TagsAreIndexes(Table(World))
    /\ \A tag \in MatchTags : RemoveMakesHole(World, tag)
    /\ \A regex \in MatchRegexes : AddReusesHole(World, regex)

\* the table has a hole below a registered regex: the regex keeps tag 1,
\* and the next vte_terminal_match_add_gregex fills slot 0
C19_Witness ==
    /\ Len(Table(World)) = 2
    /\ Table(World)[1].tag = -1
    /\ Table(World)[2].tag = 1
    /\ Table(vte_terminal_match_add_gregex(World, 1, <<NarrowChar>>))
           = <<[regex |-> <<NarrowChar>>, tag |-> 0], Table(World)[2]>>

(***************************************************************************)
(* C20.  The selection after a pass of vte_terminal_process_incoming that  *)
(* modified the screen.  Every such pass emits "contents-changed", so the  *)
(* steps of the claim are those in which log_contents_changed grows.       *)
(***************************************************************************)
\* the text the pass compares with the cached one: that of the cells the
\* selection covers, taken while the selection still holds
ProjectedSelection(t) == selection_text([t EXCEPT !.has_selection = TRUE])

PassModified == terms'[1].log_contents_changed # terms[1].log_contents_changed

\* C20: when a pass that modified the screen ends, a selection that was
\* held before it is still held if and only if the text of its cells on the
\* screen the pass leaves equals the cached selection text; the cached text
\* and the ends of the selection are left as they were.
C20_ChangedSelectionCleared ==
    [][(PassModified /\ terms[1].has_selection)
           => /\ terms'[1].has_selection
                  <=> (/\ ~terms[1].selection.null
                       /\ ProjectedSelection(terms'[1]) = terms[1].selection.str)
              /\ terms'[1].selection = terms[1].selection
              /\ terms'[1].selection_start = terms[1].selection_start
              /\ terms'[1].selection_end = terms[1].selection_end]_vars

\* select_all was the only call from outside, so it was a later pass that
\* cleared the selection: the cached text is not the text of its cells now
C20_Witness ==
    /\ nexternal = 1
    /\ ~terms[1].selection.null
    /\ ~terms[1].has_selection
    /\ terms[1].log_contents_changed >= 1
    /\ ProjectedSelection(terms[1]) # terms[1].selection.str

(***************************************************************************)
(* C21.  vte_same_class on every pair of positions of the screen, and of   *)
(* one column and one row beyond it.                                       *)
(***************************************************************************)
ClassColumns == -1..3
ClassRows(t) == (ring_delta(Scr(t).row_data) - 1)..ring_next(Scr(t).row_data)

\* the cell of the position holds a character
HoldsChar(t, col, row) ==
    /\ ring_contains(Scr(t).row_data, row)
    /\ HasCell(ring_index(Scr(t).row_data, row), col)
    /\ row_data_get(ring_index(Scr(t).row_data, row), col).c # <<NulChar>>

\* the character of the cell is a word character
WordAt(t, col, row) ==
    vte_terminal_is_word_char(t, Head(row_data_get(ring_index(Scr(t).row_data, row), col).c))

\* C21 as stated: vte_same_class is true exactly when both cells hold word
\* characters or both cells hold characters that are not word characters.
C21_SameClassWordOrNonWord ==
    \A acol \in ClassColumns, bcol \in ClassColumns :
        \A arow \in ClassRows(terms[1]), brow \in ClassRows(terms[1]) :
            vte_same_class(terms[1], acol, arow, bcol, brow)
                <=> /\ HoldsChar(terms[1], acol, arow)
                    /\ HoldsChar(terms[1], bcol, brow)
                    /\ WordAt(terms[1], acol, arow) = WordAt(terms[1], bcol, brow)

\* C21 amended: vte_same_class is true exactly when both cells hold word
\* characters; two characters that are not word characters are not in the
\* same class, and neither is an empty or missing cell with anything.
C21_SameClassWordOnly ==
    \A acol \in ClassColumns, bcol \in ClassColumns :
        \A arow \in ClassRows(terms[1]), brow \in ClassRows(terms[1]) :
            vte_same_class(terms[1], acol, arow, bcol, brow)
                <=> /\ HoldsChar(terms[1], acol, arow)
                    /\ HoldsChar(terms[1], bcol, brow)
                    /\ WordAt(terms[1], acol, arow)
                    /\ WordAt(terms[1], bcol, brow)

\* two adjacent characters that are not word characters, next to a word
\* character, with a set of word characters given
C21_Witness ==
    \E row \in ClassRows(terms[1]) :
        /\ Len(terms[1].word_chars.ranges) > 0
        /\ HoldsChar(terms[1], 0, row) /\ ~WordAt(terms[1], 0, row)
        /\ HoldsChar(terms[1], 1, row) /\ ~WordAt(terms[1], 1, row)
        /\ HoldsChar(terms[1], 2, row) /\ WordAt(terms[1], 2, row)
        /\ ~vte_same_class(terms[1], 0, row, 1, row)
        /\ vte_same_class(terms[1], 2, row, 2, row)

(***************************************************************************)
(* C22.  vte_terminal_feed_child and vte_terminal_io_write, applied to     *)
(* every state; what the child has got followed by the outgoing buffer is  *)
(* the queue.                                                              *)
(***************************************************************************)
WriteCounts == -1..MaxWritten
Queue(t) == t.pty_written \o t.outgoing
ValidTexts == { text \in ChildTexts : text # <<>> /\ vte_conv_utf8(text).ok }

\* the call emits commit with the text and puts the text at the tail
FeedChildQueues(w, text, count) ==
    \E t \in {w.terms[1]}, t2 \in {vte_terminal_feed_child(w, 1, text, count).terms[1]} :
        /\ t2.log_commit = Append(t.log_commit, text)
        /\ Queue(t2) = Queue(t) \o text
        /\ Len(t2.pty_written) >= Len(t.pty_written)

\* the call emits commit with the text and leaves the queue as it is
FeedChildCommitsOnly(w, text, count) ==
    \E t \in {w.terms[1]}, t2 \in {vte_terminal_feed_child(w, 1, text, count).terms[1]} :
        /\ t2.log_commit = Append(t.log_commit, text)
        /\ t2.outgoing = t.outgoing
        /\ t2.pty_written = t.pty_written

\* a write takes bytes from the head of the buffer, and asks to be called
\* again exactly when bytes are left
IoWriteDrainsHead(w, count) ==
    \E t \in {w.terms[1]}, r \in {vte_terminal_io_write(w, 1, count)} :
        /\ Queue(r.w.terms[1]) = Queue(t)
        /\ Len(r.w.terms[1].pty_written) >= Len(t.pty_written)
        /\ r.leave_open <=> r.w.terms[1].outgoing # <<>>

\* C22 as stated: every vte_terminal_feed_child with bytes emits commit
\* with them and puts them at the tail of the outgoing queue, with a pty or
\* without one, and the queue is drained from its head.
C22_FeedChildQueuesAlways ==
    /\ \A text \in ChildTexts \ {<<>>}, count \in WriteCounts :
           FeedChildQueues(World, text, count)
    /\ \A count \in WriteCounts : IoWriteDrainsHead(World, count)

\* C22 amended: every vte_terminal_feed_child with bytes that are whole
\* UTF-8 characters emits commit with them; it puts them at the tail of the
\* outgoing queue when a pty is attached, and leaves the queue as it is when
\* none is; the queue is drained from its head, and is empty without a pty.
C22_FeedChildQueuesWithPty ==
    /\ \A text \in ValidTexts, count \in WriteCounts :
           IF terms[1].pty THEN FeedChildQueues(World, text, count)
           ELSE FeedChildCommitsOnly(World, text, count)
    /\ \A count \in WriteCounts : IoWriteDrainsHead(World, count)
    /\ ~terms[1].pty => terms[1].outgoing = <<>>

\* two texts were given with a pty attached; the child has the first bytes
\* and the rest waits, the write source being on
C22_Witness ==
    /\ terms[1].pty
    /\ terms[1].pty_output_source
    /\ Len(terms[1].log_commit) = 2
    /\ terms[1].pty_written # <<>>
    /\ terms[1].outgoing # <<>>
    /\ terms[1].pty_written \o terms[1].outgoing
           = terms[1].log_commit[1] \o terms[1].log_commit[2]

(***************************************************************************)
(* C23.  vte_terminal_io_read when read() fails at once: the child has     *)
(* left no data and its side gives an error that is not EAGAIN or EBUSY.   *)
(***************************************************************************)
ReadErrors == ReadResults \ {"EAGAIN", "EBUSY", "EOF"}

ReadFailsNow(t) == t.pty /\ t.pty_input_source /\ t.pty_data = <<>> /\ t.pty_read \in ReadErrors

\* C23: a read error other than EAGAIN and EBUSY is logged and closes the
\* input: after vte_terminal_io_read the pty is detached, the eof event is
\* scheduled and the callback returns FALSE.
C23_ReadErrorCloses ==
    ReadFailsNow(terms[1])
        => \E r \in {vte_terminal_io_read(World, 1)} :
               /\ terms[1].pty_read \in r.w.terms[1].log_warnings
               /\ ~r.w.terms[1].pty
               /\ ~r.w.terms[1].pty_input_source
               /\ r.w.terms[1].eof_queued
               /\ ~r.again

(***************************************************************************)
(* C24: after any sequence of set_scrollback, resize and reset calls the   *)
(* capacity of the normal screen's ring is the larger of the visible row   *)
(* count and the configured scrollback, a negative setting standing for    *)
(* G_MAXLONG (scrollback_lines holds the setting after that conversion).   *)
(***************************************************************************)
C24_NormalRingCapacity ==
    \A tid \in Terminals :
        terms[tid].normal_screen.row_data.max
            = Max(terms[tid].row_count, terms[tid].scrollback_lines)

(***************************************************************************)
(* C25: the capacity of the alternate screen's ring is the visible row     *)
(* count, after initialisation and after any resize, set_scrollback or     *)
(* reset.                                                                  *)
(***************************************************************************)
C25_AlternateRingCapacity ==
    \A tid \in Terminals :
        terms[tid].alternate_screen.row_data.max = terms[tid].row_count

(***************************************************************************)
(* C26: a resize, a size_allocate that changes the column or the row       *)
(* count, leaves the cursor in the new valid range: its row is a row the   *)
(* ring retains (the ring's delta when the ring is empty) and its column   *)
(* is within the new column count (the column count itself being the       *)
(* position of a deferred wrap).                                           *)
(***************************************************************************)
Resized ==
    \E tid \in Terminals :
        /\ nexternal' = nexternal + 1
        /\ \E width \in ResizeColumns, height \in ResizeRows :
              /\ <<width, height>> # <<terms[tid].column_count, terms[tid].row_count>>
              /\ terms' = vte_terminal_size_allocate(World, tid, width, height).terms

CursorRowRetained(t) ==
    LET s == Scr(t)
        d == ring_delta(s.row_data)
    IN /\ s.cursor_current.row >= d
       /\ s.cursor_current.row <= Max(d, ring_next(s.row_data) - 1)

CursorColumnInside(t) == Scr(t).cursor_current.col <= t.column_count

C26_ResizeClampsCursor ==
    [][Resized => \A tid \in Terminals :
                      CursorRowRetained(terms'[tid]) /\ CursorColumnInside(terms'[tid])]_vars

(***************************************************************************)
(* C27: a pass of vte_terminal_process_incoming changes scroll_delta only  *)
(* at its end, and then only when scroll-on-output is set or the view was  *)
(* at the bottom when the pass began; a view that is scrolled back with    *)
(* scroll-on-output off keeps its scroll_delta across the pass.  The       *)
(* matcher loop of the pass leaves scroll_delta as it was, and the pass    *)
(* as a whole changes it only under one of the two conditions.             *)
(***************************************************************************)
PassPending(tid) ==
    /\ ~terms[tid].crashed
    /\ terms[tid].incoming # <<>> \/ terms[tid].pending # <<>>

\* the matcher loop of the pass that would run now, ended
PassLoop(tid) ==
    process_incoming_match(process_incoming_decode(World, tid), tid,
                           Scr(terms[tid]).scroll_delta)

AtBottom(t) == Scr(t).insert_delta = Scr(t).scroll_delta

C27_ScrollDeltaOnlyAtPassEnd ==
    \A tid \in Terminals :
        PassPending(tid) =>
            \E L \in {PassLoop(tid)}, w2 \in {vte_terminal_process_incoming(World, tid)} :
                LET s == Scr(terms[tid])
                IN L.w.terms[tid].crashed
                   \/ /\ TScr(L.w, tid).scroll_delta = s.scroll_delta
                      /\ TScr(w2, tid).scroll_delta # s.scroll_delta =>
                             terms[tid].scroll_on_output \/ AtBottom(terms[tid])

(***************************************************************************)
(* C28: from every blink state of the cursor of a terminal that blinks     *)
(* (it has the focus, blinking is set and the cursor is visible), the      *)
(* disabled state in which the timer has stopped after the blink timeout   *)
(* included, a key press leaves the cursor on and the blink timer          *)
(* scheduled anew, its elapsed time zero.                                  *)
(***************************************************************************)
KeyPressed(tid) ==
    /\ Alive
    /\ terms[tid].has_focus
    /\ nexternal' = nexternal + 1
    /\ \E modifier \in BOOLEAN, count \in 0..1 :
          /\ count <= Len(terms[tid].outgoing) + 1
          /\ terms' = vte_terminal_key_press(World, tid, modifier,
                                             <<NarrowChar>>, count).terms

Blinks(t) == t.has_focus /\ t.cursor_blinks /\ t.cursor_visible

C28_KeystrokeRestartsBlink ==
    [][\A tid \in Terminals :
          KeyPressed(tid) /\ Blinks(terms[tid]) =>
              /\ terms'[tid].cursor_blink_state
              /\ terms'[tid].cursor_blink_tag
              /\ terms'[tid].cursor_blink_time = 0]_vars

(***************************************************************************)
(* C29: reading from the pty is paused only while a selection is being     *)
(* dragged: whenever selecting is false and a pty is attached, the read    *)
(* source of the pty is connected, or the terminal is on the active list,  *)
(* whose timers connect it again after a read that took its fill.  Input   *)
(* is never left paused with nothing scheduled to resume it.               *)
(***************************************************************************)
ReadResumes(tid) ==
    terms[tid].pty_input_source \/ vte_terminal_is_processing(World, tid)

C29_ReadPausedOnlyWhileSelecting ==
    \A tid \in Terminals :
        ~terms[tid].crashed /\ ~terms[tid].selecting /\ terms[tid].pty_channel
            => ReadResumes(tid)

(***************************************************************************)
(* C30: whenever a terminal is on the active list and no timer callback    *)
(* is running, the process timer or the update timer is scheduled.         *)
(***************************************************************************)
C30_ActiveHasTimer ==
    \A tid \in Terminals :
        vte_terminal_is_processing(World, tid)
        /\ ~in_process_timeout /\ ~in_update_timeout
            => process_timeout_tag # 0 \/ update_timeout_tag # 0

\* a read from the pty has put the terminal on the active list with the
\* process timer alone, and the bytes wait to be processed
C30_Witness ==
    /\ vte_terminal_is_processing(World, 1)
    /\ ~in_process_timeout /\ ~in_update_timeout
    /\ process_timeout_tag # 0 /\ update_timeout_tag = 0
    /\ QueuedBytes(terms[1]) # <<>>

(***************************************************************************)
(* C31: outside the timer callbacks the process timer and the update       *)
(* timer are never both scheduled.                                         *)
(***************************************************************************)
C31_OneTimerAtATime ==
    ~in_process_timeout /\ ~in_update_timeout
        => ~(process_timeout_tag # 0 /\ update_timeout_tag # 0)

\* terminal 1 is on the active list for the bytes fed to it, terminal 2 was
\* put before it by an invalidation, and the update timer alone is scheduled
C31_Witness ==
    /\ active_terminals = <<2, 1>>
    /\ QueuedBytes(terms[1]) # <<>> /\ ~terms[1].update_regions
    /\ ~terms[1].adjustment_changed_pending
    /\ terms[2].update_regions
    /\ update_timeout_tag = 1 /\ process_timeout_tag = 0

(***************************************************************************)
(* C32: vte_terminal_match_check never returns a stale match: whenever it  *)
(* answers from the last match (the position lies in the stored range),    *)
(* the text and the tag it returns are those of a new scan of the present  *)
(* screen with the present regex table at that position.                   *)
(***************************************************************************)
FreshScan(tid, column, row) ==
    vte_terminal_match_check_internal(
        vte_terminal_match_contents_clear(World, tid), tid, column,
        row + Scr(terms[tid]).scroll_delta).r

C32_CachedMatchIsFresh ==
    \A tid \in Terminals : \A column \in MatchColumns, row \in MatchRows :
        rowcol_inside_match(terms[tid], row + Scr(terms[tid]).scroll_delta, column)
            => \E c \in {vte_terminal_match_check(World, tid, column, row)},
                  f \in {FreshScan(tid, column, row)} :
                  c.ret = f.result /\ c.tag = f.tag

(***************************************************************************)
(* C33: the matcher loop of a pass ends.  Every turn of the loop moves     *)
(* start forward, sets leftovers, or moves one control character to the    *)
(* front of the run at start, and a turn that moves a control character is *)
(* followed by a turn that moves start forward: the loop never permutes    *)
(* without end.                                                            *)
(***************************************************************************)
\* the state of the matcher loop when the pass that would run now enters it
PassStart(tid) ==
    The({ [w |-> w1, wbuf |-> w1.terms[tid].pending, start |-> 0,
           leftovers |-> FALSE, modified |-> FALSE,
           invalidated_text |-> FALSE, bbox |-> EmptyBBox]
          : w1 \in {process_incoming_decode(World, tid)} })

LoopRuns(L, tid) ==
    L.start < Len(L.wbuf) /\ ~L.leftovers /\ ~L.w.terms[tid].crashed

\* the states of the loop from L on, n turns at most
RECURSIVE LoopTurns(_, _, _, _)
LoopTurns(L, tid, delta, n) ==
    IF n = 0 \/ ~LoopRuns(L, tid) THEN <<L>>
    ELSE <<L>> \o LoopTurns(process_incoming_step(L, tid, delta), tid, delta, n - 1)

PassTurns(tid) ==
    The({ LoopTurns(L, tid, Scr(terms[tid]).scroll_delta, 2 * Len(L.wbuf))
          : L \in {PassStart(tid)} })

TurnAdvances(a, b, tid) ==
    b.start > a.start \/ b.leftovers \/ b.w.terms[tid].crashed

TurnPermutes(a, b) ==
    /\ b.start = a.start /\ ~b.leftovers
    /\ b.wbuf # a.wbuf /\ b.w = a.w

C33_MatcherLoopTerminates ==
    \A tid \in Terminals :
        PassPending(tid) =>
            \E tr \in {PassTurns(tid)} :
                /\ ~LoopRuns(tr[Len(tr)], tid)
                /\ \A i \in 1..(Len(tr) - 1) :
                      \/ TurnAdvances(tr[i], tr[i + 1], tid)
                      \/ /\ TurnPermutes(tr[i], tr[i + 1])
                         /\ i + 2 <= Len(tr)
                         /\ TurnAdvances(tr[i + 1], tr[i + 2], tid)

\* a pass is pending whose loop moves a control character in front of the
\* beginning of a sequence
C33_Witness ==
    /\ PassPending(1)
    /\ \E tr \in {PassTurns(1)} :
          \E i \in 1..(Len(tr) - 1) : TurnPermutes(tr[i], tr[i + 1])

(***************************************************************************)
(* C34: in the matcher loop every read and every write of the pending      *)
(* buffer, the look-ahead at *next and the shift of the permutation        *)
(* included, is at an index below the number of pending code points, and   *)
(* the permutation keeps the length of the buffer and only moves one       *)
(* control code point (at most 0x1F) to the front of the run.              *)
(***************************************************************************)
\* the indices of wbuf (counted from 0) that the NULL branch of a turn
\* reads or writes: wbuf[start], *next, and the slots of the shift
null_branch_indices(L) ==
    LET wbuf == L.wbuf
        start == L.start
        m == matcher_match(wbuf, start)
        permutes == process_incoming_step(L, 1, 0).wbuf # wbuf
    IN IF m.match # "NULL" THEN {}
       ELSE {start, m.next}
            \cup IF permutes THEN start..m.next ELSE {}

\* b is a with the control code point at next moved to start
MovesControl(a, b) ==
    \E next \in (a.start + 1)..(Len(a.wbuf) - 1) :
        /\ a.wbuf[next + 1] <= 31
        /\ b.wbuf = SubSeq(a.wbuf, 1, a.start) \o <<a.wbuf[next + 1]>>
                    \o SubSeq(a.wbuf, a.start + 1, next)
                    \o SubSeq(a.wbuf, next + 2, Len(a.wbuf))

C34_BufferAccessInside ==
    \A tid \in Terminals :
        PassPending(tid) =>
            \E tr \in {PassTurns(tid)} :
                \A i \in 1..(Len(tr) - 1) :
                    /\ \A k \in null_branch_indices(tr[i]) : k < Len(tr[i].wbuf)
                    /\ Len(tr[i + 1].wbuf) = Len(tr[i].wbuf)
                    /\ tr[i + 1].wbuf # tr[i].wbuf => MovesControl(tr[i], tr[i + 1])

(***************************************************************************)
(* C35: when the matcher answers that the code points at start begin a     *)
(* control sequence that the end of the pending buffer cuts short, the     *)
(* pass stops: the turn calls no handler and consumes nothing, the code    *)
(* points from start on are the pending buffer after the pass, in their    *)
(* order, and the next pass matches them again from its beginning with the *)
(* newly decoded code points behind them.                                  *)
(***************************************************************************)
LeftPending(L) == SubSeq(L.wbuf, L.start + 1, Len(L.wbuf))

C35_IncompletePrefixKept ==
    \A tid \in Terminals :
        PassPending(tid) =>
            \E tr \in {PassTurns(tid)} :
                LET last == tr[Len(tr)]
                    P == PassStart(tid)
                IN /\ P.start = 0 /\ IsPrefix(terms[tid].pending, P.wbuf)
                   /\ last.leftovers =>
                         /\ Len(tr) >= 2
                         /\ matcher_match(last.wbuf, last.start).match = ""
                         /\ last.w = tr[Len(tr) - 1].w
                         /\ last.start = tr[Len(tr) - 1].start
                         /\ LeftPending(last) # <<>>
                         /\ vte_terminal_process_incoming(World, tid).terms[tid].pending
                                = LeftPending(last)

\* a pass has left ESC [ pending, and with the byte fed since the next pass
\* begins at the sequence ESC [ C
C35_Witness ==
    /\ terms[1].pending = <<EscChar, BracketChar>>
    /\ PassStart(1).wbuf = SeqCUF
    /\ ~PassTurns(1)[Len(PassTurns(1))].leftovers

(***************************************************************************)
(* C36: after every handled sequence and every inserted character of a     *)
(* pass, insert_delta is at least the delta of the ring and the row of the *)
(* cursor is at least insert_delta: the two assertions that the matcher    *)
(* loop makes in a debug build hold, also when a row appended to a full    *)
(* ring has evicted the oldest one.                                        *)
(***************************************************************************)
\* the assertions at the end of a turn of the matcher loop
LoopAssertions(w, tid) ==
    LET s == TScr(w, tid)
    IN /\ s.insert_delta >= ring_delta(s.row_data)
       /\ s.cursor_current.row >= s.insert_delta

C36_LoopAssertionsHold ==
    \A tid \in Terminals :
        PassPending(tid) =>
            \E tr \in {PassTurns(tid)} :
                \A i \in 1..(Len(tr) - 1) :
                    tr[i + 1].start > tr[i].start /\ ~tr[i + 1].w.terms[tid].crashed
                        => LoopAssertions(tr[i + 1].w, tid)

(***************************************************************************)
(* C37: a terminal that has been finalized is not on the active list,      *)
(* whatever update regions or unprocessed input it had when it was         *)
(* finalized: no callback of the process or update timer finds it there.   *)
(***************************************************************************)
OnActiveList(tid) == \E i \in 1..Len(active_terminals) : active_terminals[i] = tid

C37_FinalizedNotActive ==
    \A tid \in DOMAIN terms :
        terms[tid].finalized => ~OnActiveList(tid) /\ ~terms[tid].active

\* terminal 1 has been finalized while terminal 2 stays on the list with
\* input to process, and a timer is scheduled whose callback walks the list
C37_Witness ==
    /\ DOMAIN terms = Peers
    /\ terms[1].finalized /\ ~terms[2].finalized
    /\ active_terminals = <<2>>
    /\ QueuedBytes(terms[2]) # <<>>
    /\ process_timeout_tag # 0 \/ update_timeout_tag # 0

(***************************************************************************)
(* C38: when vte_terminal_reset returns, nothing that was fed or queued    *)
(* before is left to be acted on: the list of incoming chunks, the pending *)
(* code points and the outgoing buffer are empty, the active screen is the *)
(* normal screen, and there is no selection.                               *)
(***************************************************************************)
ResetReturned(tid) ==
    /\ Alive
    /\ nexternal' = nexternal + 1
    /\ \E clear_history \in BOOLEAN :
          terms' = vte_terminal_reset(World, tid, TRUE, clear_history).terms

NothingLeft(t) ==
    /\ t.incoming = <<>>
    /\ t.pending = <<>>
    /\ t.outgoing = <<>>
    /\ t.screen = "normal"
    /\ ~t.has_selection /\ t.selection.null

C38_ResetLeavesNothing ==
    [][\A tid \in Terminals : ResetReturned(tid) => NothingLeft(terms'[tid])]_vars

\* a reset is called with a byte waiting in the incoming list, ESC pending,
\* a byte queued for the child, all text selected and the alternate screen
\* in use
C38_Witness ==
    /\ Alive /\ nexternal < MaxResetOps
    /\ QueuedBytes(terms[1]) # <<>>
    /\ terms[1].pending # <<>>
    /\ terms[1].outgoing # <<>>
    /\ terms[1].screen = "alternate"
    /\ terms[1].has_selection
    /\ NothingLeft(vte_terminal_reset(World, 1, TRUE, FALSE).terms[1])

(***************************************************************************)
(* C39: a terminal is on the active list at most once, and its field       *)
(* active is set exactly when it is on the list, after any interleaving of *)
(* feeds, reads from the pty, invalidations, stop_processing and the timer *)
(* callbacks.                                                              *)
(***************************************************************************)
ListLinks(tid) == {i \in 1..Len(active_terminals) : active_terminals[i] = tid}

C39_ActiveListExact ==
    \A tid \in DOMAIN terms :
        /\ Cardinality(ListLinks(tid)) <= 1
        /\ terms[tid].active <=> ListLinks(tid) # {}

\* terminal 1 has been removed from the list and put back in front of
\* terminal 2: it has bytes waiting in its incoming list and update regions,
\* each of which asks for a place on the list
C39_Witness ==
    /\ DOMAIN terms = Peers
    /\ active_terminals = <<1, 2>>
    /\ terms[1].active /\ terms[2].active
    /\ QueuedBytes(terms[1]) # <<>>
    /\ terms[1].update_regions

(***************************************************************************)
(* C40: every incoming chunk is owned by exactly one place, the incoming   *)
(* list of one terminal or the free list of the process: under any         *)
(* interleaving of feeds, reads from the pty, passes, resets, set_pty and  *)
(* the pruning of the free list, no chunk is on two lists or twice on one, *)
(* none is released twice, and none has bytes added after its release.     *)
(***************************************************************************)
\* the chunks of all the lists, one list after the other
RECURSIVE ListedChunks(_, _)
ListedChunks(p, tids) ==
    IF tids = {} THEN ChunkList(p, p.free_chunks, MaxChunks + 1)
    ELSE LET tid == CHOOSE tid \in tids : TRUE
         IN ChunkList(p, p.incoming[tid], MaxChunks + 1)
            \o ListedChunks(p, tids \ {tid})

OwnedOnce(p) ==
    \E l \in {ListedChunks(p, Peers)} :
        /\ \A i, j \in 1..Len(l) : l[i] = l[j] => i = j
        /\ \A a \in Chunks : p.chunk[a].allocated <=> \E i \in 1..Len(l) : l[i] = a

C40_ChunksOwnedOnce ==
    pool # NoPool =>
        /\ OwnedOnce(pool)
        /\ ~pool.released_twice
        /\ ~pool.appended_released
        /\ pool.chunk[NullChunk] = ZeroChunk

\* both terminals hold chunks, one of them more than one, the free list
\* holds chunks that a pass has released, and the pruning has given a chunk
\* back to the allocator
C40_Witness ==
    /\ pool # NoPool
    /\ \E tid \in Peers : Len(ChunkList(pool, pool.incoming[tid], MaxChunks)) >= 2
    /\ \A tid \in Peers : pool.incoming[tid] # NullChunk
    /\ pool.free_chunks # NullChunk
    /\ \E a, b \in Chunks : a < b /\ ~pool.chunk[a].allocated /\ pool.chunk[b].allocated
====
